---- MODULE Spec2Model ----
(***************************************************************************)
(* Model of the plugin registry and hook dispatcher of the focus utility   *)
(* (src/plugin_system.py: PluginManager) together with the JSON settings   *)
(* file it persists its enabled_plugins list to.                           *)
(*                                                                         *)
(* All handlers run on the single GUI thread, so each manager method is    *)
(* one atomic action.  What a plugin does when it is imported, when its    *)
(* initialize()/cleanup() runs and when one of its hooks runs is decided   *)
(* by the plugin and its environment (hardware, files): these are inputs   *)
(* the actions draw with \E.                                               *)
(***************************************************************************)
EXTENDS Integers, Sequences, FiniteSets, TLC

(***************************************************************************)
(* Bounds of the model.                                                    *)
(***************************************************************************)
\* number of plugin directories with a valid manifest (available_plugins)
NumPlugins == 2
AllIds == <<"p1", "p2", "p3", "p4", "p5">>

\* keys of available_plugins after discover_plugins
AvailablePlugins == {AllIds[i] : i \in 1..NumPlugins}

\* an id a settings file may still list although its directory has no (valid)
\* manifest any more
GonePlugins == {"gone"}

PluginIds == AvailablePlugins \cup GonePlugins

\* the goals lists handed to call_goals_analyzed_hooks
GoalLists == {<<>>, <<"g1">>, <<"g1", "g2">>}

\* lists without repetition over S
SeqsNoDup(S) ==
    {s \in UNION {[1..n -> S] : n \in 0..Cardinality(S)} :
        \A i, j \in DOMAIN s : i # j => s[i] # s[j]}

(***************************************************************************)
(* Python list primitives used by the manager.                             *)
(***************************************************************************)
\* x in list
Contains(s, x) == \E i \in DOMAIN s : s[i] = x

\* (variant of ListRemove: the id is left in the list)
ListRemove_Keeps(s, x) == s

\* list.remove(x): removes the first occurrence only
ListRemove(s, x) ==
    IF ~Contains(s, x) THEN s
    ELSE LET k == CHOOSE i \in DOMAIN s :
                    s[i] = x /\ \A j \in 1..(i - 1) : s[j] # x
         IN  SubSeq(s, 1, k - 1) \o SubSeq(s, k + 1, Len(s))

(***************************************************************************)
(* The settings file: JSON text, modelled as its token sequence.  A Python *)
(* dict is an ordered list of members [k, kind, v]; kind is "list" for the *)
(* enabled_plugins array and "object" for the nested app_settings object,  *)
(* whose content v is kept as opaque tokens.                               *)
(***************************************************************************)
Punct == {"{", "}", "[", "]", ",", ":"}

RECURSIVE JoinComma(_)
JoinComma(s) ==
    IF Len(s) = 0 THEN <<>>
    ELSE IF Len(s) = 1 THEN <<s[1]>>
    ELSE <<s[1], ",">> \o JoinComma(Tail(s))

JsonDumpValue(m) ==
    IF m.kind = "list" THEN <<"[">> \o JoinComma(m.v) \o <<"]">>
    ELSE <<"{">> \o JoinComma(m.v) \o <<"}">>

RECURSIVE JsonDumpMembers(_)
JsonDumpMembers(d) ==
    IF Len(d) = 0 THEN <<>>
    ELSE LET one == <<d[1].k, ":">> \o JsonDumpValue(d[1])
         IN  IF Len(d) = 1 THEN one
             ELSE one \o <<",">> \o JsonDumpMembers(Tail(d))

\* json.dump(settings, f)
JsonDump(d) == <<"{">> \o JsonDumpMembers(d) \o <<"}">>

ParseFail == [ok |-> FALSE, val |-> <<>>, next |-> 0]

\* (variant of ParseElems: the element before the closing token is lost)
RECURSIVE ParseElems_DropsLast(_, _, _, _)
ParseElems_DropsLast(t, i, close, acc) ==
    IF i > Len(t) \/ t[i] \in Punct THEN ParseFail
    ELSE IF i + 1 > Len(t) THEN ParseFail
    ELSE IF t[i + 1] = close THEN [ok |-> TRUE, val |-> acc, next |-> i + 2]
    ELSE IF t[i + 1] = ","
         THEN ParseElems_DropsLast(t, i + 2, close, Append(acc, t[i]))
    ELSE ParseFail

\* elements of an array or object body, up to the closing token
RECURSIVE ParseElems(_, _, _, _)
ParseElems(t, i, close, acc) ==
    IF i > Len(t) \/ t[i] \in Punct THEN ParseFail
    ELSE LET acc2 == Append(acc, t[i])
         IN  IF i + 1 > Len(t) THEN ParseFail
             ELSE IF t[i + 1] = close
                  THEN [ok |-> TRUE, val |-> acc2, next |-> i + 2]
             ELSE IF t[i + 1] = ","
                  THEN ParseElems(t, i + 2, close, acc2)
             ELSE ParseFail

ParseValue(t, i) ==
    IF i + 1 > Len(t) \/ t[i] \notin {"[", "{"} THEN ParseFail
    ELSE LET close == IF t[i] = "[" THEN "]" ELSE "}"
             kind == IF t[i] = "[" THEN "list" ELSE "object"
             r == IF t[i + 1] = close
                  THEN [ok |-> TRUE, val |-> <<>>, next |-> i + 2]
                  ELSE ParseElems(t, i + 1, close, <<>>)
         IN  [ok |-> r.ok, val |-> [kind |-> kind, v |-> r.val], next |-> r.next]

RECURSIVE ParseMembers(_, _, _)
ParseMembers(t, i, acc) ==
    IF i + 2 > Len(t) \/ t[i] \in Punct \/ t[i + 1] # ":" THEN ParseFail
    ELSE LET r == ParseValue(t, i + 2)
             acc2 == Append(acc, [k |-> t[i], kind |-> r.val.kind, v |-> r.val.v])
         IN  IF ~r.ok \/ r.next > Len(t) THEN ParseFail
             ELSE IF t[r.next] = "}"
                  THEN [ok |-> r.next = Len(t), val |-> acc2, next |-> r.next + 1]
             ELSE IF t[r.next] = ","
                  THEN ParseMembers(t, r.next + 1, acc2)
             ELSE ParseFail

\* json.load(f): [ok, val]; ok = FALSE stands for the exception json.load raises
JsonLoad(t) ==
    IF Len(t) < 2 \/ t[1] # "{" THEN ParseFail
    ELSE IF t[2] = "}" THEN [ok |-> Len(t) = 2, val |-> <<>>, next |-> 3]
    ELSE ParseMembers(t, 2, <<>>)

\* dict.get(key, default) for a list-valued key
DictGet(d, key, default) ==
    IF \E i \in DOMAIN d : d[i].k = key
    THEN d[CHOOSE i \in DOMAIN d : d[i].k = key].v
    ELSE default

(***************************************************************************)
(* State of the process-wide PluginManager and of its settings file.       *)
(***************************************************************************)
VARIABLES
    enabled_plugins,    \* PluginManager.enabled_plugins: list of plugin ids
    loaded_plugins,     \* keys of PluginManager.loaded_plugins
    settings_file,      \* plugin_settings.json: [exists, text]
    running,            \* FALSE once the exit handler has run
    last,               \* observation of the last manager operation
    hist_disabled,      \* history: plugins whose last toggle was a disable_plugin returning True
    hist_load_failed,   \* history: plugins whose last enable_plugin failed to load them
    hist_ever_failed,   \* history: plugins for which some enable_plugin failed to load them
    hist_prev,          \* history: the operation before the last one: [op, arg, ret]
    hist_lifecycle      \* history: the last lifecycle call on each plugin's loaded instance

(***************************************************************************)
(* State of the launcher, of the session host (ProgressPopup) with its     *)
(* session summary, and of the AI chat window.                             *)
(***************************************************************************)
VARIABLES
    host,               \* launcher / ProgressPopup / SessionSummary fields and the files they use
    host_last,          \* observation of the last handler of the session host
    hist_host,          \* history: hook dispatches and timer callbacks seen so far
    chat                \* AIAssistantWindow and its AIWorkerThread

(***************************************************************************)
(* State of the assistant's chat turn (agent.chat) and of its history.     *)
(***************************************************************************)
VARIABLES
    agent,              \* agent.py: _conversation_history, chat_history.txt, the last turn
    dialog,             \* PluginTaskDialog of the wizard
    surface,            \* controlsniffer.py, the focus processes and the signal files
    feedback            \* positive_feedback plugin: previous_completion, the last call

extVars == <<agent, dialog, surface, feedback>>

hostVars == <<host, host_last, hist_host, chat, extVars>>

vars == <<enabled_plugins, loaded_plugins, settings_file, running, last,
          hist_disabled, hist_load_failed, hist_ever_failed, hist_prev, hist_lifecycle,
          host, host_last, hist_host, chat, extVars>>

\* before FocusLauncher.run has constructed a ProgressPopup
NoSession ==
    [phase |-> "wizard", launched |-> FALSE, now |-> 0, start_time |-> 0,
     session_duration |-> 1,
     progress_timer |-> FALSE, popup_timer |-> FALSE, app_timer |-> FALSE,
     shown |-> FALSE, is_visible |-> FALSE, tray_icon |-> FALSE,
     goals |-> <<>>, has_checkboxes |-> FALSE, goal_checkboxes |-> <<>>,
     completed_goals |-> {},
     stop_signal |-> FALSE, current_mode |-> FALSE,
     plugin_refs |-> [p \in PluginIds |-> FALSE]]

\* the observation record of a handler of the session host
HostObs(handler, dispatches) ==
    [handler |-> handler, dispatches |-> dispatches, outcome |-> "-",
     stop_signal_seen |-> FALSE, remaining |-> 0, password |-> "-",
     basic_cleanup |-> FALSE, exited |-> FALSE, pkill_raised |-> FALSE]

NoHostHistory ==
    [starts |-> 0, ended |-> FALSE, before_start |-> {}, after_end |-> {},
     latest_progress |-> 0, prev_progress |-> 0, ticks |-> 0]

\* the chat window after construction: empty input, no worker
NoChat ==
    [chat_input |-> "", input_enabled |-> TRUE, ai_worker |-> "none",
     fate |-> "-", waited |-> 0, in_flight |-> 0, workers |-> 0, messages |-> 0,
     answered |-> 0, pending |-> <<>>, last |-> "init", rejected |-> FALSE]

\* the observation record of a chat turn
TurnObs(outcome, asks, rounds, executed, response) ==
    [outcome |-> outcome, asks |-> asks, rounds |-> rounds,
     executed |-> executed, response |-> response]

\* agent.py at import: no message in memory; chat_history.txt does not exist
NoAgent ==
    [memory |-> <<>>, file |-> <<>>, turns |-> 0,
     turn |-> TurnObs("init", 0, 0, <<>>, "-"),
     first |-> [marker |-> FALSE, cmds |-> <<>>, text |-> ""],
     second |-> [marker |-> FALSE, cmds |-> <<>>, text |-> ""]]

\* before the wizard has constructed its PluginTaskDialog
NoDialog ==
    [phase |-> "closed", current_goals |-> <<>>, final_goals |-> <<>>,
     has_task_checkboxes |-> FALSE, task_checkboxes |-> <<>>, how |-> "-"]

\* most focus processes (focusmode.py / focus_launcher.py) started in one run
MaxProcs == 2

ProcIds == 1..MaxProcs

\* the observation record of a step of the monitor or of a focus process
SurfaceObs(op, p) ==
    [op |-> op, p |-> p, mode |-> "-", source |-> "-", ret |-> FALSE,
     focus_running |-> FALSE, stop_signal_seen |-> FALSE, signal_for |-> {},
     queued_during |-> {}]

\* controlsniffer.py at the top of its main loop, no focus process, no
\* current_mode and no stop_signal file.  signal_for and queued_during are
\* history: the sessions active when the stop_signal file was written, and
\* when the mode was queued
NoSurface ==
    [procs |-> [p \in ProcIds |-> "none"],
     current_mode |-> FALSE, stop_signal |-> FALSE, signal_for |-> {},
     pc |-> "loop", pending |-> "-",
     queued_mode |-> "None", waiting_for_session_end |-> FALSE, elapsed |-> 0,
     queued_during |-> {},
     last |-> SurfaceObs("init", 0)]

\* the positive_feedback module after import, its _progress_popup None
NoFeedback ==
    [popup |-> NoSession, ref |-> FALSE,
     previous_completion |-> [num |-> 0, den |-> 1],
     last |-> [op |-> "init", shown |-> FALSE, index |-> 0, raised |-> FALSE]]

\* what importing a plugin module and calling initialize() can do
LoadOutcomes == {"ok", "init_false", "init_raises", "no_plugin_class", "import_raises"}

\* every failing outcome leaves the manager in the same state: at construction
\* one of them stands for all
StartOutcomes == {"ok", "init_false"}

\* what one on_goals_analyzed implementation can do in one call: return
\* goals + [its task] (email assistant), return goals (PluginBase), or raise
GoalBehaviours == {"append", "identity", "raise"}

NoCleanups == [p \in PluginIds |-> 0]

\* the observation record of an operation that is no goals dispatch
Obs(op, arg, ret, calls, cleanups) ==
    [op |-> op, arg |-> arg, ret |-> ret, calls |-> calls, cleanups |-> cleanups,
     load_failed |-> FALSE, goals_in |-> <<>>, goals_out |-> <<>>, trace |-> <<>>]

(***************************************************************************)
(* load_settings / save_settings                                           *)
(***************************************************************************)
EnabledMember(ids) == [k |-> "enabled_plugins", kind |-> "list", v |-> ids]

\* the file after save_settings (the write is taken to succeed)
SaveSettings(ids) == [exists |-> TRUE, text |-> JsonDump(<<EnabledMember(ids)>>)]

\* enabled_plugins after load_settings, `current` being its value before
LoadSettings(file, current) ==
    IF ~file.exists THEN current
    ELSE LET r == JsonLoad(file.text)
         IN  IF r.ok THEN DictGet(r.val, "enabled_plugins", <<>>) ELSE <<>>

(***************************************************************************)
(* load_plugin                                                             *)
(***************************************************************************)
\* (variant of LoadPlugin: the instance is registered before initialize() is
\* checked, so a plugin whose initialize() fails stays in loaded_plugins)
LoadPlugin_KeepsFailed(loaded, p, outcome) ==
    IF p \notin AvailablePlugins
    THEN [ret |-> FALSE, loaded |-> loaded, attempted |-> FALSE]
    ELSE IF p \in loaded THEN [ret |-> TRUE, loaded |-> loaded, attempted |-> FALSE]
    ELSE IF outcome = "ok"
    THEN [ret |-> TRUE, loaded |-> loaded \cup {p}, attempted |-> TRUE]
    ELSE IF outcome \in {"init_false", "init_raises"}
    THEN [ret |-> FALSE, loaded |-> loaded \cup {p}, attempted |-> TRUE]
    ELSE [ret |-> FALSE, loaded |-> loaded, attempted |-> TRUE]

\* [ret, loaded]: the return value and loaded_plugins afterwards; `attempted`
\* tells whether the import was tried
LoadPlugin(loaded, p, outcome) ==
    IF p \notin AvailablePlugins
    THEN [ret |-> FALSE, loaded |-> loaded, attempted |-> FALSE]
    ELSE IF p \in loaded THEN [ret |-> TRUE, loaded |-> loaded, attempted |-> FALSE]
    ELSE IF outcome = "ok"
    THEN [ret |-> TRUE, loaded |-> loaded \cup {p}, attempted |-> TRUE]
    ELSE [ret |-> FALSE, loaded |-> loaded, attempted |-> TRUE]

\* load_enabled_plugins: load_plugin for each id of the list, in order
RECURSIVE LoadEnabledPlugins(_, _, _)
LoadEnabledPlugins(ids, loaded, outcomes) ==
    IF Len(ids) = 0 THEN loaded
    ELSE LoadEnabledPlugins(Tail(ids),
                            LoadPlugin(loaded, Head(ids), outcomes[Head(ids)]).loaded,
                            outcomes)

(***************************************************************************)
(* Construction: plugin_manager = PluginManager()                          *)
(***************************************************************************)
AppMember == [k |-> "app_settings", kind |-> "object", v |-> <<"app">>]

\* the settings files a process can find at start: none, an unreadable one,
\* and the files written by save_settings and by the settings dialog
InitialFiles ==
    {[exists |-> FALSE, text |-> <<>>], [exists |-> TRUE, text |-> <<"{">>],
     [exists |-> TRUE, text |-> JsonDump(<<AppMember>>)]}
    \cup {[exists |-> TRUE, text |-> JsonDump(<<EnabledMember(ids)>>)] :
            ids \in SeqsNoDup(PluginIds)}
    \cup {[exists |-> TRUE, text |-> JsonDump(<<EnabledMember(ids), AppMember>>)] :
            ids \in SeqsNoDup(PluginIds)}

Init ==
    \E file \in InitialFiles, outcomes \in [PluginIds -> StartOutcomes] :
        /\ settings_file = file
        /\ enabled_plugins = LoadSettings(file, <<>>)
        /\ loaded_plugins = LoadEnabledPlugins(LoadSettings(file, <<>>), {}, outcomes)
        /\ running = TRUE
        /\ last = Obs("init", "-", "none", <<>>, NoCleanups)
        /\ hist_disabled = {}
        /\ hist_load_failed = {}
        /\ hist_ever_failed = {}
        /\ hist_lifecycle = [p \in PluginIds |-> IF p \in loaded_plugins THEN "initialize"
                                                 ELSE "none"]
        /\ hist_prev = [op |-> "none", arg |-> "-", ret |-> "none"]
        /\ host = NoSession
        /\ host_last = HostObs("init", <<>>)
        /\ hist_host = NoHostHistory
        /\ chat = NoChat
        /\ agent = NoAgent
        /\ dialog = NoDialog
        /\ surface = NoSurface
        /\ feedback = NoFeedback

(***************************************************************************)
(* enable_plugin / disable_plugin                                          *)
(***************************************************************************)
\* (variant of EnablePlugin: the id is appended without the membership test)
EnablePlugin_AppendsAlways(p, outcome) ==
    LET r == LoadPlugin(loaded_plugins, p, outcome)
        ids == IF r.ret THEN Append(enabled_plugins, p) ELSE enabled_plugins
    IN  [ret |-> IF r.ret THEN "True" ELSE "False",
         enabled |-> ids,
         loaded |-> r.loaded,
         file |-> IF r.ret THEN SaveSettings(ids) ELSE settings_file,
         load_failed |-> r.attempted /\ ~r.ret]

\* (variant of EnablePlugin: the id is inserted at the front of the list)
EnablePlugin_InsertsFirst(p, outcome) ==
    LET r == LoadPlugin(loaded_plugins, p, outcome)
        add == r.ret /\ ~Contains(enabled_plugins, p)
        ids == IF add THEN <<p>> \o enabled_plugins ELSE enabled_plugins
    IN  [ret |-> IF r.ret THEN "True" ELSE "False",
         enabled |-> ids,
         loaded |-> r.loaded,
         file |-> IF add THEN SaveSettings(ids) ELSE settings_file,
         load_failed |-> r.attempted /\ ~r.ret]

\* enable_plugin(p), `outcome` being what loading p does if it is attempted
EnablePlugin(p, outcome) ==
    LET r == LoadPlugin(loaded_plugins, p, outcome)
        add == r.ret /\ ~Contains(enabled_plugins, p)
        ids == IF add THEN Append(enabled_plugins, p) ELSE enabled_plugins
    IN  [ret |-> IF r.ret THEN "True" ELSE "False",
         enabled |-> ids,
         loaded |-> r.loaded,
         file |-> IF add THEN SaveSettings(ids) ELSE settings_file,
         load_failed |-> r.attempted /\ ~r.ret]

enable_plugin(p, outcome) ==
    LET e == EnablePlugin(p, outcome)
    IN  /\ running
        /\ enabled_plugins' = e.enabled
        /\ loaded_plugins' = e.loaded
        /\ settings_file' = e.file
        /\ last' = [Obs("enable_plugin", p, e.ret, <<>>, NoCleanups)
                      EXCEPT !.load_failed = e.load_failed]
        /\ UNCHANGED running
        /\ UNCHANGED hostVars

\* (variant of DisablePlugin: cleanup() is called outside the membership
\* test, on every loaded plugin the call names)
DisablePlugin_CleanupUnguarded(p, cleanup_raises) ==
    LET inst == p \in loaded_plugins
        was == Contains(enabled_plugins, p)
        ids == ListRemove(enabled_plugins, p)
    IN  [ret |-> IF inst /\ cleanup_raises THEN "raised"
                 ELSE IF was THEN "True" ELSE "False",
         enabled |-> ids,
         cleanups |-> IF inst THEN [NoCleanups EXCEPT ![p] = 1] ELSE NoCleanups,
         file |-> IF was /\ ~(inst /\ cleanup_raises) THEN SaveSettings(ids)
                  ELSE settings_file]

\* disable_plugin(p), `cleanup_raises` telling whether p.cleanup() raises
DisablePlugin(p, cleanup_raises) ==
    IF Contains(enabled_plugins, p)
    THEN LET ids == ListRemove(enabled_plugins, p)
             inst == p \in loaded_plugins
         IN  [ret |-> IF inst /\ cleanup_raises THEN "raised" ELSE "True",
              enabled |-> ids,
              cleanups |-> IF inst THEN [NoCleanups EXCEPT ![p] = 1] ELSE NoCleanups,
              file |-> IF inst /\ cleanup_raises THEN settings_file
                       ELSE SaveSettings(ids)]
    ELSE [ret |-> "False", enabled |-> enabled_plugins,
          cleanups |-> NoCleanups, file |-> settings_file]

disable_plugin(p, cleanup_raises) ==
    LET d == DisablePlugin(p, cleanup_raises)
    IN  /\ running
        /\ enabled_plugins' = d.enabled
        /\ settings_file' = d.file
        /\ last' = Obs("disable_plugin", p, d.ret, <<>>, d.cleanups)
        /\ UNCHANGED <<loaded_plugins, running>>
        /\ UNCHANGED hostVars

(***************************************************************************)
(* save_settings / load_settings as operations of their own                *)
(***************************************************************************)
save_settings ==
    /\ running
    /\ settings_file' = SaveSettings(enabled_plugins)
    /\ last' = Obs("save_settings", "-", "none", <<>>, NoCleanups)
    /\ UNCHANGED <<enabled_plugins, loaded_plugins, running>>
    /\ UNCHANGED hostVars

load_settings ==
    /\ running
    /\ enabled_plugins' = LoadSettings(settings_file, enabled_plugins)
    /\ last' = Obs("load_settings", "-", "none", <<>>, NoCleanups)
    /\ UNCHANGED <<loaded_plugins, settings_file, running>>
    /\ UNCHANGED hostVars

(***************************************************************************)
(* Hook dispatch                                                           *)
(***************************************************************************)
\* (variant of DispatchHooks: no try/except around the hook call, the first
\* exception ends the pass)
RECURSIVE DispatchHooks_NoIsolation(_, _, _)
DispatchHooks_NoIsolation(ids, loaded, raises) ==
    IF Len(ids) = 0 THEN [calls |-> <<>>, ret |-> "returned"]
    ELSE LET p == Head(ids)
             rest == DispatchHooks_NoIsolation(Tail(ids), loaded, raises)
         IN  IF p \in loaded /\ p \in raises
             THEN [calls |-> <<[p |-> p, raised |-> TRUE]>>, ret |-> "raised"]
             ELSE IF p \in loaded
             THEN [calls |-> <<[p |-> p, raised |-> FALSE]>> \o rest.calls,
                   ret |-> rest.ret]
             ELSE rest

\* (variant of DispatchHooks: the pass runs over every available enabled id,
\* without the loaded_plugins test)
RECURSIVE DispatchHooks_NoLoadedTest(_, _, _)
DispatchHooks_NoLoadedTest(ids, loaded, raises) ==
    IF Len(ids) = 0 THEN [calls |-> <<>>, ret |-> "returned"]
    ELSE LET p == Head(ids)
             rest == DispatchHooks_NoLoadedTest(Tail(ids), loaded, raises)
         IN  IF p \in AvailablePlugins
             THEN [calls |-> <<[p |-> p, raised |-> p \in raises]>> \o rest.calls,
                   ret |-> rest.ret]
             ELSE rest

\* The loop shared by call_session_start_hooks, call_session_update_hooks,
\* call_session_end_hooks and call_checklist_item_changed_hooks: the hook
\* calls made, in order, each with whether it raised, and how the dispatch
\* method itself ends.  `raises` are the plugins whose hook raises this pass.
RECURSIVE DispatchHooks(_, _, _)
DispatchHooks(ids, loaded, raises) ==
    IF Len(ids) = 0 THEN [calls |-> <<>>, ret |-> "returned"]
    ELSE LET p == Head(ids)
             rest == DispatchHooks(Tail(ids), loaded, raises)
         IN  IF p \in loaded
             THEN [calls |-> <<[p |-> p, raised |-> p \in raises]>> \o rest.calls,
                   ret |-> rest.ret]
             ELSE rest

Dispatch(op, raises) ==
    LET d == DispatchHooks(enabled_plugins, loaded_plugins, raises)
    IN  /\ running
        /\ last' = Obs(op, "-", d.ret, d.calls, NoCleanups)
        /\ UNCHANGED <<enabled_plugins, loaded_plugins, settings_file, running>>
        /\ UNCHANGED hostVars

call_session_start_hooks(raises) == Dispatch("call_session_start_hooks", raises)

call_session_update_hooks(raises) == Dispatch("call_session_update_hooks", raises)

call_session_end_hooks(raises) == Dispatch("call_session_end_hooks", raises)

call_checklist_item_changed_hooks(raises) ==
    Dispatch("call_checklist_item_changed_hooks", raises)

\* one on_goals_analyzed call that returns
OnGoalsAnalyzed(p, behaviour, goals) ==
    IF behaviour = "append" THEN Append(goals, p) ELSE goals

\* (variant of GoalsLoop: the return value of on_goals_analyzed is dropped,
\* every plugin receives the input list and the input list is the result)
RECURSIVE GoalsLoop_Discards(_, _, _, _)
GoalsLoop_Discards(ids, loaded, result_goals, beh) ==
    IF Len(ids) = 0 THEN [result |-> result_goals, trace |-> <<>>]
    ELSE LET p == Head(ids)
         IN  IF p \in loaded
             THEN LET raised == beh[p] = "raise"
                      out == OnGoalsAnalyzed(p, beh[p], result_goals)
                      rest == GoalsLoop_Discards(Tail(ids), loaded, result_goals, beh)
                  IN  [result |-> rest.result,
                       trace |-> <<[p |-> p, arg |-> result_goals, beh |-> beh[p],
                                    raised |-> raised,
                                    ret |-> IF raised THEN <<>> ELSE out]>>
                                 \o rest.trace]
             ELSE GoalsLoop_Discards(Tail(ids), loaded, result_goals, beh)

\* The loop of call_goals_analyzed_hooks: [result, trace], the trace listing
\* each on_goals_analyzed call with the list it received and what it did.
RECURSIVE GoalsLoop(_, _, _, _)
GoalsLoop(ids, loaded, result_goals, beh) ==
    IF Len(ids) = 0 THEN [result |-> result_goals, trace |-> <<>>]
    ELSE LET p == Head(ids)
         IN  IF p \in loaded
             THEN LET raised == beh[p] = "raise"
                      out == OnGoalsAnalyzed(p, beh[p], result_goals)
                      rest == GoalsLoop(Tail(ids), loaded,
                                        IF raised THEN result_goals ELSE out, beh)
                  IN  [result |-> rest.result,
                       trace |-> <<[p |-> p, arg |-> result_goals, beh |-> beh[p],
                                    raised |-> raised,
                                    ret |-> IF raised THEN <<>> ELSE out]>>
                                 \o rest.trace]
             ELSE GoalsLoop(Tail(ids), loaded, result_goals, beh)

CallsOfTrace(trace) ==
    [i \in DOMAIN trace |-> [p |-> trace[i].p, raised |-> trace[i].raised]]

call_goals_analyzed_hooks(goals, beh) ==
    LET g == GoalsLoop(enabled_plugins, loaded_plugins, goals, beh)
    IN  /\ running
        /\ last' = [op |-> "call_goals_analyzed_hooks", arg |-> "-", ret |-> "returned",
                    calls |-> CallsOfTrace(g.trace), cleanups |-> NoCleanups,
                    load_failed |-> FALSE, goals_in |-> goals, goals_out |-> g.result, trace |-> g.trace]
        /\ UNCHANGED <<enabled_plugins, loaded_plugins, settings_file, running>>
        /\ UNCHANGED hostVars

(***************************************************************************)
(* Exit handler: cleanup_all_plugins                                       *)
(***************************************************************************)
\* number of cleanup() calls cleanup_all_plugins makes on each plugin
CleanupAllPlugins(loaded) == [p \in PluginIds |-> IF p \in loaded THEN 1 ELSE 0]

cleanup_all_plugins ==
    /\ running
    /\ running' = FALSE
    /\ last' = Obs("cleanup_all_plugins", "-", "returned", <<>>,
                   CleanupAllPlugins(loaded_plugins))
    /\ UNCHANGED <<enabled_plugins, loaded_plugins, settings_file>>
    /\ UNCHANGED hostVars

(***************************************************************************)
(* History variables, each a function of the operation just observed.      *)
(***************************************************************************)
NoHistory == UNCHANGED <<hist_disabled, hist_load_failed, hist_ever_failed, hist_prev, hist_lifecycle>>

\* the operation that came before the one just observed
PrevHistory ==
    /\ hist_prev' = [op |-> last.op, arg |-> last.arg, ret |-> last.ret]
    /\ UNCHANGED <<hist_disabled, hist_load_failed, hist_ever_failed, hist_lifecycle>>

\* disable_plugin(p) returned True and no enable_plugin(p) returned True since
DisabledHistory ==
    /\ hist_disabled' =
          IF last'.op = "disable_plugin" /\ last'.ret = "True"
          THEN hist_disabled \cup {last'.arg}
          ELSE IF last'.op = "enable_plugin" /\ last'.ret = "True"
          THEN hist_disabled \ {last'.arg}
          ELSE hist_disabled
    /\ UNCHANGED <<hist_load_failed, hist_ever_failed, hist_prev, hist_lifecycle>>

\* enable_plugin(p) failed to load p: ever, and with no enable_plugin(p)
\* returning True since
LoadFailedHistory ==
    /\ hist_load_failed' =
          IF last'.op = "enable_plugin" /\ last'.load_failed
          THEN hist_load_failed \cup {last'.arg}
          ELSE IF last'.op = "enable_plugin" /\ last'.ret = "True"
          THEN hist_load_failed \ {last'.arg}
          ELSE hist_load_failed
    /\ hist_ever_failed' =
          IF last'.op = "enable_plugin" /\ last'.load_failed
          THEN hist_ever_failed \cup {last'.arg}
          ELSE hist_ever_failed
    /\ UNCHANGED <<hist_disabled, hist_prev, hist_lifecycle>>

\* the last lifecycle call made on the instance kept for each plugin:
\* initialize() when load_plugin has created and registered the instance,
\* cleanup() when disable_plugin or cleanup_all_plugins has called it
LifecycleHistory ==
    /\ hist_lifecycle' =
          [p \in PluginIds |->
              IF p \notin loaded_plugins /\ p \in loaded_plugins' THEN "initialize"
              ELSE IF last'.cleanups[p] > 0 THEN "cleanup"
              ELSE hist_lifecycle[p]]
    /\ UNCHANGED <<hist_disabled, hist_load_failed, hist_ever_failed, hist_prev>>

(***************************************************************************)
(* Specifications.  Spec: the registry operations, with the history of the *)
(* operation before the last.  SpecHooks: toggling plugins and the four    *)
(* session dispatch passes.  SpecGoals: toggling and the goals dispatch.   *)
(* SpecDispatch: toggling and all five dispatch passes.  SpecDisabled and  *)
(* SpecLoadFailed add one history variable each to SpecDispatch.           *)
(***************************************************************************)
Next ==
    \/ \E p \in PluginIds, outcome \in LoadOutcomes :
          enable_plugin(p, outcome) /\ PrevHistory
    \/ \E p \in PluginIds, cleanup_raises \in BOOLEAN :
          disable_plugin(p, cleanup_raises) /\ PrevHistory
    \/ save_settings /\ PrevHistory
    \/ load_settings /\ PrevHistory
    \/ cleanup_all_plugins /\ PrevHistory

Spec == Init /\ [][Next]_vars

NextHooks ==
    \/ \E p \in PluginIds, outcome \in LoadOutcomes :
          enable_plugin(p, outcome) /\ NoHistory
    \/ \E p \in PluginIds, cleanup_raises \in BOOLEAN :
          disable_plugin(p, cleanup_raises) /\ NoHistory
    \/ \E raises \in SUBSET AvailablePlugins :
          call_session_start_hooks(raises) /\ NoHistory
    \/ \E raises \in SUBSET AvailablePlugins :
          call_session_update_hooks(raises) /\ NoHistory
    \/ \E raises \in SUBSET AvailablePlugins :
          call_session_end_hooks(raises) /\ NoHistory
    \/ \E raises \in SUBSET AvailablePlugins :
          call_checklist_item_changed_hooks(raises) /\ NoHistory

SpecHooks == Init /\ [][NextHooks]_vars

NextGoals ==
    \/ \E p \in PluginIds, outcome \in LoadOutcomes :
          enable_plugin(p, outcome) /\ NoHistory
    \/ \E p \in PluginIds, cleanup_raises \in BOOLEAN :
          disable_plugin(p, cleanup_raises) /\ NoHistory
    \/ \E goals \in GoalLists, beh \in [AvailablePlugins -> GoalBehaviours] :
          call_goals_analyzed_hooks(goals, beh) /\ NoHistory

SpecGoals == Init /\ [][NextGoals]_vars

\* what a hook does when it is called, drawn from fewer cases: no hook raises
\* or every hook raises
CoarseRaises == {{}, AvailablePlugins}

CoarseBehaviours == {[p \in AvailablePlugins |-> b] : b \in {"append", "raise"}}

NextDispatch ==
    \/ \E p \in PluginIds, outcome \in LoadOutcomes :
          enable_plugin(p, outcome) /\ NoHistory
    \/ \E p \in PluginIds, cleanup_raises \in BOOLEAN :
          disable_plugin(p, cleanup_raises) /\ NoHistory
    \/ \E raises \in CoarseRaises :
          call_session_start_hooks(raises) /\ NoHistory
    \/ \E raises \in CoarseRaises :
          call_session_update_hooks(raises) /\ NoHistory
    \/ \E raises \in CoarseRaises :
          call_session_end_hooks(raises) /\ NoHistory
    \/ \E raises \in CoarseRaises :
          call_checklist_item_changed_hooks(raises) /\ NoHistory
    \/ \E beh \in CoarseBehaviours :
          call_goals_analyzed_hooks(<<"g1">>, beh) /\ NoHistory

SpecDispatch == Init /\ [][NextDispatch]_vars

\* The two specifications with a history variable start from the settings
\* files that list available plugins only.
InitKnown == Init /\ \A i \in DOMAIN enabled_plugins : enabled_plugins[i] \in AvailablePlugins

NextDisabled ==
    \/ \E p \in PluginIds, outcome \in LoadOutcomes :
          enable_plugin(p, outcome) /\ DisabledHistory
    \/ \E p \in PluginIds, cleanup_raises \in BOOLEAN :
          disable_plugin(p, cleanup_raises) /\ DisabledHistory
    \/ load_settings /\ DisabledHistory
    \/ \E raises \in CoarseRaises :
          call_session_start_hooks(raises) /\ DisabledHistory
    \/ \E raises \in CoarseRaises :
          call_session_update_hooks(raises) /\ DisabledHistory
    \/ \E raises \in CoarseRaises :
          call_session_end_hooks(raises) /\ DisabledHistory
    \/ \E raises \in CoarseRaises :
          call_checklist_item_changed_hooks(raises) /\ DisabledHistory
    \/ \E beh \in CoarseBehaviours :
          call_goals_analyzed_hooks(<<"g1">>, beh) /\ DisabledHistory

SpecDisabled == InitKnown /\ [][NextDisabled]_vars

NextLoadFailed ==
    \/ \E p \in PluginIds, outcome \in LoadOutcomes :
          enable_plugin(p, outcome) /\ LoadFailedHistory
    \/ \E p \in PluginIds, cleanup_raises \in BOOLEAN :
          disable_plugin(p, cleanup_raises) /\ LoadFailedHistory
    \/ \E raises \in CoarseRaises :
          call_session_start_hooks(raises) /\ LoadFailedHistory
    \/ \E raises \in CoarseRaises :
          call_session_update_hooks(raises) /\ LoadFailedHistory
    \/ \E raises \in CoarseRaises :
          call_session_end_hooks(raises) /\ LoadFailedHistory
    \/ \E raises \in CoarseRaises :
          call_checklist_item_changed_hooks(raises) /\ LoadFailedHistory
    \/ \E beh \in CoarseBehaviours :
          call_goals_analyzed_hooks(<<"g1">>, beh) /\ LoadFailedHistory

SpecLoadFailed == InitKnown /\ [][NextLoadFailed]_vars

(***************************************************************************)
(* Properties                                                              *)
(***************************************************************************)
SessionDispatchOps ==
    {"call_session_start_hooks", "call_session_update_hooks",
     "call_session_end_hooks", "call_checklist_item_changed_hooks"}

DispatchOps == SessionDispatchOps \cup {"call_goals_analyzed_hooks"}

\* the plugins the last operation called a hook on, in call order
Called == [i \in DOMAIN last.calls |-> last.calls[i].p]

IsCalled(p) == \E i \in DOMAIN last.calls : last.calls[i].p = p

\* the enabled ids that have a loaded instance, in list order
EnabledLoaded ==
    LET IsLoaded(p) == p \in loaded_plugins
    IN  SelectSeq(enabled_plugins, IsLoaded)

NoDup(s) == \A i, j \in DOMAIN s : i # j => s[i] # s[j]

IndexOf(s, x) == CHOOSE i \in DOMAIN s : s[i] = x

\* the enabled_plugins list a reader of the settings file finds in it
StoredList == LoadSettings(settings_file, <<>>)

\* C1: once disable_plugin(p) has returned True, no dispatch pass of the five
\* hook-dispatch methods calls a hook on p until a later enable_plugin(p)
\* returns True.
C1_NoDispatchAfterDisable ==
    \A p \in hist_disabled : ~Contains(enabled_plugins, p) /\ ~IsCalled(p)

\* a pass ran and called some plugin while a loaded plugin stays disabled
C1_Witness ==
    /\ last.op \in DispatchOps
    /\ Len(last.calls) > 0
    /\ \E p \in hist_disabled : p \in loaded_plugins

\* C2: a disable_plugin(p) call on an enabled, loaded p makes exactly one
\* cleanup() call, on p; a disable_plugin(p) call made while p is not in
\* enabled_plugins returns False and makes no cleanup() call.
C2_CleanupOnceOnDisable ==
    [][last'.op = "disable_plugin" =>
         LET p == last'.arg
         IN  /\ (Contains(enabled_plugins, p) /\ p \in loaded_plugins)
                   => /\ last'.cleanups = [NoCleanups EXCEPT ![p] = 1]
                      /\ last'.ret \in {"True", "raised"}
             /\ ~Contains(enabled_plugins, p)
                   => /\ last'.cleanups = NoCleanups
                      /\ last'.ret = "False"]_vars

\* disable_plugin on an enabled, loaded plugin returned True after one cleanup()
C2_Witness ==
    /\ last.op = "disable_plugin"
    /\ last.ret = "True"
    /\ last.arg \in loaded_plugins
    /\ last.cleanups[last.arg] = 1
    /\ hist_prev.op = "enable_plugin" /\ hist_prev.arg = last.arg /\ hist_prev.ret = "True"

\* C3: call_goals_analyzed_hooks is a left fold over the enabled, loaded
\* plugins in enabled_plugins order: the first receives the input goals, each
\* later one what the one before returned (what the one before received, if
\* that one raised), the result is the last value carried; when every plugin
\* called appends its task the result is the input goals followed by the
\* tasks in enabled_plugins order.
C3_GoalsFold ==
    last.op = "call_goals_analyzed_hooks" =>
        LET t == last.trace
            Carry(i) == IF t[i].raised THEN t[i].arg ELSE t[i].ret
        IN  /\ [i \in DOMAIN t |-> t[i].p] = EnabledLoaded
            /\ Len(t) > 0 => t[1].arg = last.goals_in
            /\ \A i \in 2..Len(t) : t[i].arg = Carry(i - 1)
            /\ last.goals_out = IF Len(t) = 0 THEN last.goals_in ELSE Carry(Len(t))
            /\ \A i \in DOMAIN t :
                  /\ t[i].beh = "append" => t[i].ret = Append(t[i].arg, t[i].p)
                  /\ t[i].beh = "identity" => t[i].ret = t[i].arg
            /\ (\A i \in DOMAIN t : t[i].beh = "append")
                  => last.goals_out = last.goals_in \o [i \in DOMAIN t |-> t[i].p]

\* two appending plugins, p2 listed before p1: the result is goals + [p2, p1]
C3_Witness ==
    /\ last.op = "call_goals_analyzed_hooks"
    /\ enabled_plugins = <<"p2", "p1">>
    /\ Len(last.trace) = 2
    /\ \A i \in 1..2 : last.trace[i].beh = "append"
    /\ last.goals_in = <<"g1">>
    /\ last.goals_out = <<"g1", "p2", "p1">>

\* C4: in a pass of one of the four session dispatch methods a hook that
\* raises keeps no plugin later in enabled_plugins from being called in the
\* same pass, and the dispatch method returns without raising.
C4_RaiseIsolated ==
    last.op \in SessionDispatchOps =>
        /\ last.ret = "returned"
        /\ \A i \in DOMAIN last.calls : last.calls[i].raised =>
              \A j \in DOMAIN enabled_plugins :
                  (j > IndexOf(enabled_plugins, last.calls[i].p)
                     /\ enabled_plugins[j] \in loaded_plugins)
                  => \E k \in DOMAIN last.calls :
                        k > i /\ last.calls[k].p = enabled_plugins[j]

\* the first plugin's hook raised and the second plugin's hook was still called
C4_Witness ==
    /\ last.op \in SessionDispatchOps
    /\ Len(last.calls) = 2
    /\ last.calls[1].raised
    /\ last.ret = "returned"

\* C5: load_settings right after save_settings leaves enabled_plugins as it
\* was saved (same ids, same order), and saving the loaded list again writes
\* the same file.
C5_SettingsRoundTrip ==
    [][(last.op = "save_settings" /\ last'.op = "load_settings")
          => /\ enabled_plugins' = enabled_plugins
             /\ SaveSettings(enabled_plugins') = settings_file']_vars

\* a list of two ids was saved and loaded back
C5_Witness ==
    /\ hist_prev.op = "save_settings"
    /\ last.op = "load_settings"
    /\ Len(enabled_plugins) = 2

\* C6 as stated: after an enable_plugin(p) whose load failed, which returned
\* False and left p out of loaded_plugins, no later dispatch pass calls a
\* hook on p.
C6_NeverDispatchedAfterFailure ==
    /\ (last.op = "enable_plugin" /\ last.load_failed)
          => last.ret = "False" /\ last.arg \notin loaded_plugins
    /\ \A p \in hist_ever_failed : ~IsCalled(p)

\* C6, amended: an enable_plugin(p) whose load fails returns False and leaves
\* enabled_plugins, loaded_plugins and the settings file unchanged, p is not
\* in loaded_plugins, and no dispatch pass calls a hook on p until a later
\* enable_plugin(p) returns True.
C6_NotDispatchedUntilLoaded ==
    /\ [](\A p \in hist_load_failed : p \notin loaded_plugins /\ ~IsCalled(p))
    /\ [][(last'.op = "enable_plugin" /\ last'.load_failed)
             => /\ last'.ret = "False"
                /\ last'.arg \notin loaded_plugins'
                /\ enabled_plugins' = enabled_plugins
                /\ loaded_plugins' = loaded_plugins
                /\ settings_file' = settings_file]_vars

\* a pass called the other plugin while p, listed in enabled_plugins, has
\* failed to load
C6_Witness ==
    /\ last.op \in DispatchOps
    /\ Len(last.calls) > 0
    /\ \E p \in hist_load_failed : Contains(enabled_plugins, p)

\* C7: a hook is dispatched to p only if p is in enabled_plugins and in
\* loaded_plugins; a pass skips an enabled plugin that is not loaded and
\* returns.
C7_DispatchOnlyEnabledLoaded ==
    /\ \A i \in DOMAIN last.calls :
          Contains(enabled_plugins, last.calls[i].p) /\ last.calls[i].p \in loaded_plugins
    /\ last.op \in DispatchOps => last.ret = "returned"

\* a pass called one plugin and skipped an enabled plugin that is not loaded
C7_Witness ==
    /\ last.op \in DispatchOps
    /\ Len(last.calls) = 1
    /\ \E i \in DOMAIN enabled_plugins :
          enabled_plugins[i] \in AvailablePlugins \ loaded_plugins

\* C8: enabled_plugins never lists an id twice; a second enable_plugin(p) or
\* disable_plugin(p) right after the first leaves enabled_plugins,
\* loaded_plugins and the settings file as the first left them (the second
\* enable_plugin finding p as loadable as the first did).
C8_TogglesIdempotent ==
    /\ [](NoDup(enabled_plugins))
    /\ [][(/\ last'.op \in {"enable_plugin", "disable_plugin"}
           /\ last.op = last'.op
           /\ last.arg = last'.arg
           /\ ~(last.ret = "False" /\ last'.ret = "True"))
             => /\ enabled_plugins' = enabled_plugins
                /\ loaded_plugins' = loaded_plugins
                /\ settings_file' = settings_file]_vars

\* enable_plugin(p) returned True twice in a row
C8_Witness ==
    /\ hist_prev.op = "enable_plugin" /\ hist_prev.ret = "True"
    /\ last.op = "enable_plugin" /\ last.ret = "True"
    /\ hist_prev.arg = last.arg
    /\ Contains(enabled_plugins, last.arg)

\* C9: whenever an enable_plugin or disable_plugin call has finished, by
\* returning or by propagating the exception of cleanup(), the list stored
\* in the settings file equals enabled_plugins.
C9_FileMatchesMemory ==
    last.op \in {"enable_plugin", "disable_plugin"} => StoredList = enabled_plugins

\* C10: enabled_plugins starts as the list of the settings file; a dispatch
\* pass calls the enabled, loaded plugins in enabled_plugins order; a toggle
\* keeps the order of the ids that stay and puts a newly enabled id last.
C10_DispatchInListOrder ==
    /\ enabled_plugins = StoredList
    /\ [](last.op \in DispatchOps => Called = EnabledLoaded)
    /\ [][LET old == enabled_plugins
              new == enabled_plugins'
          IN  /\ \A i, j \in DOMAIN new :
                    (i < j /\ Contains(old, new[i]) /\ Contains(old, new[j]))
                    => IndexOf(old, new[i]) < IndexOf(old, new[j])
              /\ \A i \in DOMAIN new : ~Contains(old, new[i]) =>
                    /\ i = Len(new)
                    /\ last'.op = "enable_plugin"
                    /\ last'.arg = new[i]
                    /\ last'.ret = "True"]_vars

\* a pass called p2 before p1 after p1 was enabled behind p2
C10_Witness ==
    /\ last.op \in DispatchOps
    /\ Called = <<"p2", "p1">>
    /\ StoredList = <<"p2", "p1">>
    /\ settings_file = SaveSettings(enabled_plugins)

(***************************************************************************)
(* The launcher and the session host: FocusLauncher.run, ProgressPopup,    *)
(* SessionSummary.close_with_cleanup (focus_launcher.py).  The GUI is      *)
(* single-threaded: each handler is one step.  Time is counted in whole    *)
(* units; the progress percent elapsed / session_duration * 100 is kept as *)
(* its numerator over session_duration.                                    *)
(***************************************************************************)
\* largest reading of the clock
MaxClock == 3

\* longest checklist
MaxGoals == 3

\* datetime.now() is the local wall clock: between two readings it goes
\* forward, or back (clock set back, end of daylight saving time)
ClockSteps == {-1, 1}

SessionDurations == {1, 2}

\* "* a" stands for the bulleted goal text of task "a"
GoalTexts == {"* a", "* b"}

Tasks == {"a", "* a", "b"}

WizardGoals == {<<>>, <<"* a">>, <<"* a", "* b">>}

Min(a, b) == IF a <= b THEN a ELSE b

Max(a, b) == IF a >= b THEN a ELSE b

Alive == host.phase \in {"session", "summary"}

ActiveTimers(h) ==
    (IF h.progress_timer THEN {"progress"} ELSE {})
    \cup (IF h.popup_timer THEN {"popup"} ELSE {})
    \cup (IF h.app_timer THEN {"app"} ELSE {})

\* one call of a plugin_manager.call_*_hooks method made by a handler, with
\* the arguments it passes and the timers active when it is made
HookEntry(hook, raises, elapsed, progress, early, h) ==
    [hook |-> hook,
     calls |-> DispatchHooks(enabled_plugins, loaded_plugins, raises).calls,
     elapsed |-> elapsed, progress |-> progress, early_termination |-> early,
     timers |-> ActiveTimers(h), refs |-> h.plugin_refs]

\* the manager observation left by the last dispatch a handler made
LastOfDispatches(d) ==
    IF d = <<>> THEN last
    ELSE Obs("call_" \o d[Len(d)].hook \o "_hooks", "-", "returned",
             d[Len(d)].calls, NoCleanups)

\* min(100, (elapsed / session_duration) * 100), times session_duration
ProgressNum(elapsed, duration) == Min(100 * duration, 100 * elapsed)

\* int(x) of Python truncates towards zero
PyInt(num, den) == IF num >= 0 THEN num \div den ELSE 0 - ((0 - num) \div den)

\* the n of the command progress:<n> the LED plugin writes for a progress
LedCommand(num, den) == PyInt(num, den)

(***************************************************************************)
(* launch_focus_mode and the construction of ProgressPopup                 *)
(***************************************************************************)
LaunchOutcomes ==
    {"activated", "password_rejected", "run_with_password_failed", "script_failed"}

\* launch_focus_mode: "returned" to its caller or "exit" by sys.exit(1).  The
\* shell scripts are outside the sources; the current_mode file is written
\* by run_with_password, before its first sudo command.
LaunchFocusMode(use_website_blocking, outcome) ==
    IF outcome = "script_failed"
    THEN [result |-> "exit", launched |-> FALSE, current_mode |-> FALSE]
    ELSE IF use_website_blocking /\ outcome = "password_rejected"
    THEN [result |-> "returned", launched |-> FALSE, current_mode |-> FALSE]
    ELSE IF use_website_blocking /\ outcome = "run_with_password_failed"
    THEN [result |-> "returned", launched |-> FALSE, current_mode |-> TRUE]
    ELSE [result |-> "returned", launched |-> TRUE, current_mode |-> use_website_blocking]

\* (variant of SetupTimers: the session-start hooks are not dispatched)
SetupTimers_NoStartHook(h, raises) ==
    [host |-> [h EXCEPT !.progress_timer = TRUE, !.popup_timer = TRUE,
                        !.app_timer = TRUE, !.shown = TRUE],
     dispatches |-> <<>>]

\* setup_timers: start the three timers, dispatch session start, show_popup
SetupTimers(h, raises) ==
    LET h1 == [h EXCEPT !.progress_timer = TRUE, !.popup_timer = TRUE,
                        !.app_timer = TRUE]
    IN  [host |-> [h1 EXCEPT !.shown = TRUE],
         dispatches |-> <<HookEntry("session_start", raises, 0, 0, "absent", h1)>>]

\* ProgressPopup.__init__ up to setup_timers
NewProgressPopup(h, duration, goals, tray_available) ==
    [h EXCEPT !.phase = "session", !.start_time = h.now,
              !.session_duration = duration,
              !.goals = goals, !.completed_goals = {},
              !.has_checkboxes = (goals # <<>>),
              !.goal_checkboxes = [i \in DOMAIN goals |-> [text |-> goals[i], checked |-> FALSE]],
              !.tray_icon = tray_available, !.is_visible = tray_available]

\* set_progress_popup_reference: _progress_popup of every loaded plugin is
\* set to the ProgressPopup (plugin_refs[p] = TRUE); PluginBase.__init__
\* leaves it None
SetProgressPopupReference(h, loaded) ==
    [h EXCEPT !.plugin_refs = [p \in PluginIds |-> IF p \in loaded THEN TRUE ELSE @[p]]]

\* FocusLauncher.run / run_cli_session: the wizard, launch_focus_mode, the
\* construction of the session host, then set_progress_popup_reference
run(wizard_accepted, use_website_blocking, outcome, duration, goals, tray_available, raises) ==
    LET l == LaunchFocusMode(use_website_blocking, outcome)
        started == wizard_accepted /\ l.result = "returned"
        h0 == [host EXCEPT !.launched = wizard_accepted /\ l.launched,
                           !.current_mode = wizard_accepted /\ l.current_mode]
        s == SetupTimers(NewProgressPopup(h0, duration, goals, tray_available), raises)
    IN  /\ running
        /\ host.phase = "wizard"
        /\ outcome \in {"password_rejected", "run_with_password_failed"} => use_website_blocking
        /\ host' = IF started THEN SetProgressPopupReference(s.host, loaded_plugins)
                   ELSE [h0 EXCEPT !.phase = "exited"]
        /\ host_last' = [HostObs("run", IF started THEN s.dispatches ELSE <<>>)
                           EXCEPT !.outcome = IF ~wizard_accepted THEN "wizard_cancelled"
                                              ELSE outcome,
                                  !.exited = ~started]
        /\ last' = LastOfDispatches(IF started THEN s.dispatches ELSE <<>>)
        /\ UNCHANGED <<enabled_plugins, loaded_plugins, settings_file, running, chat, extVars>>

(***************************************************************************)
(* Session end: session_complete and stop_focus_mode                       *)
(***************************************************************************)
StopTimers(h) ==
    [h EXCEPT !.progress_timer = FALSE, !.popup_timer = FALSE, !.app_timer = FALSE]

\* removal of the current_mode and stop_signal files, inside one try/except
DeleteSessionFiles(h, remove_fails) ==
    IF remove_fails THEN h
    ELSE [h EXCEPT !.current_mode = FALSE, !.stop_signal = FALSE]

\* self.close(): closeEvent hides to the tray when there is a tray icon
Close(h) ==
    [h EXCEPT !.shown = FALSE,
              !.is_visible = IF h.tray_icon THEN FALSE ELSE h.is_visible]

\* the common body of session_complete and stop_focus_mode; `early` is the
\* early_termination entry of the session data dict
EndSession(h, early, raises, remove_fails) ==
    LET h1 == DeleteSessionFiles(StopTimers(h), remove_fails)
    IN  [host |-> Close([h1 EXCEPT !.phase = "summary"]),
         entry |-> HookEntry("session_end", raises, h.now - h.start_time, 0, early, h1)]

\* (variant of SessionComplete: the dict is tagged as on a manual stop)
SessionComplete_Tagged(h, raises, remove_fails) ==
    EndSession(h, "True", raises, remove_fails)

SessionComplete(h, raises, remove_fails) ==
    EndSession(h, "absent", raises, remove_fails)

StopFocusMode(h, raises, remove_fails) ==
    EndSession(h, "True", raises, remove_fails)

StopSources == {"button", "tray", "end_session"}

\* stop_focus_mode, from the Stop Focus Mode button, the tray End Session
\* action or the end_session API
stop_focus_mode(source, raises, remove_fails) ==
    LET e == StopFocusMode(host, raises, remove_fails)
    IN  /\ running /\ Alive
        /\ source = "button" => host.shown
        /\ source = "tray" => host.tray_icon
        /\ host' = e.host
        /\ host_last' = [HostObs("stop_focus_mode", <<e.entry>>) EXCEPT !.outcome = source]
        /\ last' = LastOfDispatches(<<e.entry>>)
        /\ UNCHANGED <<enabled_plugins, loaded_plugins, settings_file, running, chat, extVars>>

(***************************************************************************)
(* Timer callbacks                                                         *)
(***************************************************************************)
\* (variant of UpdateProgress: the hooks get the elapsed time of the
\* construction, not the recomputed one)
UpdateProgress_Stale(h, raises, signal_remove_fails, remove_fails) ==
    [host |-> h,
     dispatches |-> <<HookEntry("session_update", raises, 0, 0, "absent", h)>>,
     stop_signal_seen |-> FALSE, remaining |-> h.session_duration]

\* update_progress, h holding the clock reading of this tick
UpdateProgress(h, raises, signal_remove_fails, remove_fails) ==
    IF h.stop_signal /\ ~signal_remove_fails
    THEN LET e == StopFocusMode([h EXCEPT !.stop_signal = FALSE], raises, remove_fails)
         IN  [host |-> e.host, dispatches |-> <<e.entry>>, stop_signal_seen |-> TRUE,
              remaining |-> 0]
    ELSE LET elapsed == h.now - h.start_time
             remaining == Max(0, h.session_duration - elapsed)
             upd == HookEntry("session_update", raises, elapsed,
                              ProgressNum(elapsed, h.session_duration), "absent", h)
         IN  IF elapsed >= h.session_duration
             THEN LET e == SessionComplete(h, raises, remove_fails)
                  IN  [host |-> e.host, dispatches |-> <<upd, e.entry>>,
                       stop_signal_seen |-> FALSE, remaining |-> remaining]
             ELSE [host |-> h, dispatches |-> <<upd>>, stop_signal_seen |-> FALSE,
                   remaining |-> remaining]

\* the 1-second progress timer fires
update_progress(dt, raises, signal_remove_fails, remove_fails) ==
    LET u == UpdateProgress([host EXCEPT !.now = host.now + dt], raises,
                            signal_remove_fails, remove_fails)
    IN  /\ running /\ Alive
        /\ host.progress_timer
        /\ host.now + dt \in -1..MaxClock
        /\ host' = u.host
        /\ host_last' = [HostObs("update_progress", u.dispatches)
                           EXCEPT !.stop_signal_seen = u.stop_signal_seen,
                                  !.remaining = u.remaining]
        /\ last' = LastOfDispatches(u.dispatches)
        /\ UNCHANGED <<enabled_plugins, loaded_plugins, settings_file, running, chat, extVars>>

\* the popup-interval timer fires
show_popup ==
    /\ running /\ Alive
    /\ host.popup_timer
    /\ host' = [host EXCEPT !.shown = TRUE]
    /\ host_last' = HostObs("show_popup", <<>>)
    /\ UNCHANGED <<enabled_plugins, loaded_plugins, settings_file, running, last, chat, extVars>>

\* the 5-second usage sampling timer fires
track_app_usage ==
    /\ running /\ Alive
    /\ host.app_timer
    /\ host_last' = HostObs("track_app_usage", <<>>)
    /\ UNCHANGED <<enabled_plugins, loaded_plugins, settings_file, running, last, chat, extVars, host>>

(***************************************************************************)
(* User actions on the popup and the tray, and the stop-signal file        *)
(***************************************************************************)
\* the Keep Focusing button
continue_session ==
    /\ running /\ Alive
    /\ host.shown
    /\ host' = [host EXCEPT !.shown = FALSE, !.popup_timer = TRUE]
    /\ host_last' = [HostObs("continue_session", <<>>)
                       EXCEPT !.outcome = IF host.popup_timer THEN "-" ELSE "timer_restarted"]
    /\ UNCHANGED <<enabled_plugins, loaded_plugins, settings_file, running, last, chat, extVars>>

\* a click on the tray icon or on its Show/Hide action
toggle_visibility ==
    /\ running /\ Alive
    /\ host.tray_icon
    /\ host' = [host EXCEPT !.shown = ~host.is_visible, !.is_visible = ~host.is_visible]
    /\ host_last' = HostObs("toggle_visibility", <<>>)
    /\ UNCHANGED <<enabled_plugins, loaded_plugins, settings_file, running, last, chat, extVars>>

\* another process (agent_timer, a script) creates the stop_signal file
write_stop_signal ==
    /\ running
    /\ host.phase = "session"
    /\ ~host.stop_signal
    /\ host' = [host EXCEPT !.stop_signal = TRUE]
    /\ host_last' = HostObs("write_stop_signal", <<>>)
    /\ UNCHANGED <<enabled_plugins, loaded_plugins, settings_file, running, last, chat, extVars>>

(***************************************************************************)
(* The checklist: goal_checked, the checklist API for plugins, and         *)
(* add_todo_item of the AI agent                                           *)
(***************************************************************************)
\* (variant of SetBox: unchecking an item leaves its text in completed_goals)
SetBox_NeverDiscards(h, i, checked) ==
    [h EXCEPT !.goal_checkboxes[i].checked = checked,
              !.completed_goals = @ \cup {h.goal_checkboxes[i].text}]

\* checkbox i changes state and emits stateChanged: goal_checked adds its
\* text to completed_goals or discards it
SetBox(h, i, checked) ==
    [h EXCEPT !.goal_checkboxes[i].checked = checked,
              !.completed_goals = IF checked THEN @ \cup {h.goal_checkboxes[i].text}
                                  ELSE @ \ {h.goal_checkboxes[i].text}]

\* the user clicks checkbox i of the popup
goal_checked(i, raises) ==
    LET h == SetBox(host, i, ~host.goal_checkboxes[i].checked)
        e == HookEntry("checklist_item_changed", raises, 0, 0, "absent", h)
    IN  /\ running /\ Alive
        /\ host.shown
        /\ i \in DOMAIN host.goal_checkboxes
        /\ host' = h
        /\ host_last' = HostObs("goal_checked", <<e>>)
        /\ last' = LastOfDispatches(<<e>>)
        /\ UNCHANGED <<enabled_plugins, loaded_plugins, settings_file, running, chat, extVars>>

\* index of the first checkbox with this text, 0 if there is none
FindBox(boxes, text) ==
    IF \E i \in DOMAIN boxes : boxes[i].text = text
    THEN CHOOSE i \in DOMAIN boxes :
            /\ boxes[i].text = text
            /\ \A j \in DOMAIN boxes : boxes[j].text = text => i <= j
    ELSE 0

\* set_checklist_item_checked(item_text, checked), called by a plugin:
\* setChecked emits stateChanged only when the state changes
set_checklist_item_checked(text, checked, raises) ==
    LET i == FindBox(host.goal_checkboxes, text)
        found == host.has_checkboxes /\ i # 0
        changes == found /\ host.goal_checkboxes[i].checked # checked
        h == IF changes THEN SetBox(host, i, checked) ELSE host
        d == IF changes
             THEN <<HookEntry("checklist_item_changed", raises, 0, 0, "absent", h)>>
             ELSE <<>>
    IN  /\ running /\ Alive
        /\ host' = h
        /\ host_last' = [HostObs("set_checklist_item_checked", d)
                           EXCEPT !.outcome = IF found THEN "True" ELSE "False"]
        /\ last' = LastOfDispatches(d)
        /\ UNCHANGED <<enabled_plugins, loaded_plugins, settings_file, running, chat, extVars>>

\* task if task.startswith(bullet) else bullet + task
FormatTask(task) == IF task \in GoalTexts THEN task ELSE "* " \o task

\* add_todo_item(task): the goal is appended, and a checkbox when the popup
\* was built with a checklist
add_todo_item(task) ==
    LET text == FormatTask(task)
    IN  /\ running /\ Alive
        /\ Len(host.goals) < MaxGoals
        /\ host' = [host EXCEPT
                       !.goals = Append(@, text),
                       !.goal_checkboxes = IF host.has_checkboxes
                                           THEN Append(@, [text |-> text, checked |-> FALSE])
                                           ELSE @]
        /\ host_last' = HostObs("add_todo_item", <<>>)
        /\ UNCHANGED <<enabled_plugins, loaded_plugins, settings_file, running, last, chat, extVars>>

\* get_checklist_progress_percentage, as numerator and denominator
ChecklistPercentage(h) ==
    IF h.goals = <<>> \/ ~h.has_checkboxes THEN [num |-> 0, den |-> 1]
    ELSE [num |-> Cardinality(h.completed_goals) * 100, den |-> Len(h.goals)]

\* PluginBase.get_all_checklist_items of a plugin whose _progress_popup is
\* set (ref) or None
GetAllChecklistItems(ref, h) == IF ref THEN h.goals ELSE <<>>

\* PluginBase.get_checklist_progress_percentage: [num, den]
GetChecklistProgressPercentage(ref, h) ==
    IF ref THEN ChecklistPercentage(h) ELSE [num |-> 0, den |-> 1]

(***************************************************************************)
(* SessionSummary.close_with_cleanup and stop_focus_mode_with_password     *)
(***************************************************************************)
\* (variant of StopFocusModeWithPassword: a rejected password dialog
\* returns before the basic cleanup)
StopFocusModeWithPassword_RejectReturns(current_mode, accepted, pkill_raises, sudo_fails) ==
    [basic_cleanup |-> ~current_mode \/ (accepted /\ ~pkill_raises),
     pkill_raised |-> current_mode /\ accepted /\ pkill_raises]

\* stop_focus_mode_with_password: the password dialog and the sudo commands
\* only when the current_mode file exists; the two pkill calls are outside
\* the inner try, the sudo commands inside it; whether stop_focus_mode.sh
\* was run
StopFocusModeWithPassword(current_mode, accepted, pkill_raises, sudo_fails) ==
    [basic_cleanup |-> ~(current_mode /\ accepted /\ pkill_raises),
     pkill_raised |-> current_mode /\ accepted /\ pkill_raises]

\* Escape or the close button of the summary: the summary-closed dispatch
\* (PluginManager has no call_summary_closed_hooks: AttributeError, caught),
\* the tray icon cleanup, the OS cleanup, sys.exit(0)
close_with_cleanup(tray_error, accepted, pkill_raises, sudo_fails) ==
    LET c == StopFocusModeWithPassword(host.current_mode, accepted, pkill_raises, sudo_fails)
    IN  /\ running
        /\ host.phase = "summary"
        /\ host' = [host EXCEPT !.phase = "exited",
                                !.tray_icon = IF tray_error THEN @ ELSE FALSE]
        /\ host_last' = [HostObs("close_with_cleanup", <<>>)
                           EXCEPT !.outcome = "summary_closed_hook_missing",
                                  !.password = IF ~host.current_mode THEN "-"
                                               ELSE IF accepted THEN "accepted"
                                               ELSE "rejected",
                                  !.basic_cleanup = c.basic_cleanup,
                                  !.pkill_raised = c.pkill_raised,
                                  !.exited = TRUE]
        /\ UNCHANGED <<enabled_plugins, loaded_plugins, settings_file, running, last, chat, extVars>>

(***************************************************************************)
(* History of the session host, a function of the handler just observed.   *)
(***************************************************************************)
KeepHostHistory == UNCHANGED hist_host

\* the order of the dispatches and timer callbacks of the session: what was
\* dispatched before the session start, what happened after the session end
OrderHistory ==
    LET d == host_last'.dispatches
        hooks == {d[i].hook : i \in DOMAIN d}
        events == hooks
                  \cup (IF host_last'.handler = "show_popup" THEN {"popup"} ELSE {})
                  \cup (IF host_last'.handler = "track_app_usage" THEN {"usage_sample"} ELSE {})
        unstarted == {d[i].hook : i \in {j \in DOMAIN d :
                          \A k \in 1..j : d[k].hook # "session_start"}}
    IN  hist_host' =
          [hist_host EXCEPT
             !.starts = Min(2, @ + Cardinality({i \in DOMAIN d : d[i].hook = "session_start"})),
             !.ended = @ \/ "session_end" \in hooks,
             !.before_start = @ \cup (IF hist_host.starts = 0 THEN unstarted ELSE {}),
             !.after_end = @ \cup (IF hist_host.ended THEN events ELSE {})]

\* the progress passed to the session-update hooks by the last tick and by
\* the tick before it
ProgressHistory ==
    LET d == host_last'.dispatches
        updates == {i \in DOMAIN d : d[i].hook = "session_update"}
    IN  hist_host' =
          IF updates = {} THEN hist_host
          ELSE [hist_host EXCEPT
                  !.latest_progress = d[CHOOSE i \in updates : TRUE].progress,
                  !.prev_progress = hist_host.latest_progress,
                  !.ticks = Min(2, @ + 1)]

ManagerIdle ==
    UNCHANGED <<hist_disabled, hist_load_failed, hist_ever_failed, hist_prev, hist_lifecycle>>

(***************************************************************************)
(* Specifications of the session host.  SpecSession: launch, timers, the   *)
(* popup and tray, both session ends and the summary.  SpecChecklist: a    *)
(* session with its checklist.  Both start with every available plugin     *)
(* enabled in the settings file.                                           *)
(***************************************************************************)
InitAllEnabled ==
    /\ Init
    /\ settings_file = SaveSettings([i \in 1..NumPlugins |-> AllIds[i]])
    /\ loaded_plugins = AvailablePlugins

NextSession ==
    \/ \E wizard_accepted, use_website_blocking, tray_available \in BOOLEAN,
          outcome \in LaunchOutcomes, duration \in SessionDurations :
          run(wizard_accepted, use_website_blocking, outcome, duration, <<"* a">>,
              tray_available, {}) /\ OrderHistory /\ ManagerIdle
    \/ \E dt \in ClockSteps, raises \in CoarseRaises,
          signal_remove_fails, remove_fails \in BOOLEAN :
          update_progress(dt, raises, signal_remove_fails, remove_fails)
             /\ OrderHistory /\ ManagerIdle
    \/ show_popup /\ OrderHistory /\ ManagerIdle
    \/ track_app_usage /\ OrderHistory /\ ManagerIdle
    \/ continue_session /\ OrderHistory /\ ManagerIdle
    \/ toggle_visibility /\ OrderHistory /\ ManagerIdle
    \/ write_stop_signal /\ OrderHistory /\ ManagerIdle
    \/ \E source \in StopSources, remove_fails \in BOOLEAN :
          stop_focus_mode(source, {}, remove_fails) /\ OrderHistory /\ ManagerIdle
    \/ goal_checked(1, {}) /\ OrderHistory /\ ManagerIdle
    \/ \E tray_error, accepted, pkill_raises, sudo_fails \in BOOLEAN :
          close_with_cleanup(tray_error, accepted, pkill_raises, sudo_fails)
             /\ OrderHistory /\ ManagerIdle

SpecSession == InitAllEnabled /\ [][NextSession]_vars

\* the ticks of a session, with the progress of the tick before
NextProgress ==
    \/ \E duration \in SessionDurations, goals \in WizardGoals :
          run(TRUE, FALSE, "activated", duration, goals, TRUE, {})
             /\ ProgressHistory /\ ManagerIdle
    \/ \E dt \in ClockSteps, raises \in CoarseRaises,
          signal_remove_fails, remove_fails \in BOOLEAN :
          update_progress(dt, raises, signal_remove_fails, remove_fails)
             /\ ProgressHistory /\ ManagerIdle
    \/ write_stop_signal /\ ProgressHistory /\ ManagerIdle
    \/ continue_session /\ ProgressHistory /\ ManagerIdle
    \/ show_popup /\ ProgressHistory /\ ManagerIdle

SpecProgress == InitAllEnabled /\ [][NextProgress]_vars

NextChecklist ==
    \/ \E goals \in WizardGoals, tray_available \in BOOLEAN :
          run(TRUE, FALSE, "activated", 2, goals, tray_available, {})
             /\ KeepHostHistory /\ ManagerIdle
    \/ \E i \in 1..MaxGoals :
          goal_checked(i, {}) /\ KeepHostHistory /\ ManagerIdle
    \/ \E text \in GoalTexts, checked \in BOOLEAN :
          set_checklist_item_checked(text, checked, {}) /\ KeepHostHistory /\ ManagerIdle
    \/ \E task \in Tasks :
          add_todo_item(task) /\ KeepHostHistory /\ ManagerIdle
    \/ toggle_visibility /\ KeepHostHistory /\ ManagerIdle
    \/ \E source \in StopSources :
          stop_focus_mode(source, {}, FALSE) /\ KeepHostHistory /\ ManagerIdle

SpecChecklist == InitAllEnabled /\ [][NextChecklist]_vars

(***************************************************************************)
(* The AI chat window (ai_chat_window.py): AIAssistantWindow in the GUI    *)
(* thread and one AIWorkerThread per accepted request.  The signals of the *)
(* worker are queued to the GUI thread: chat.pending.                      *)
(***************************************************************************)
\* AIWorkerThread.__init__: timeout_seconds=30
timeout_seconds == 30

\* requests the user sends in one run
MaxRequests == 2

\* what agent.chat does in the worker thread
ProviderFates == {"responds", "empty_response", "raises", "hangs"}

\* run() creates and starts its QTimer in the worker thread, then blocks in
\* chat() and returns: the worker thread never runs an event loop (no
\* exec_()), so the timer's timeout is never delivered
WorkerEventLoop == FALSE

\* (variant of SendMessage: the two early returns are gone)
SendMessage_NoEarlyReturn(c, fate) ==
    [c EXCEPT !.chat_input = "", !.input_enabled = FALSE,
              !.messages = @ + 1, !.ai_worker = "running", !.fate = fate,
              !.waited = 0, !.answered = 0,
              !.in_flight = @ + 1, !.workers = @ + 1,
              !.last = "send_message", !.rejected = FALSE]

\* send_message: Return in the input or the Send button
SendMessage(c, fate) ==
    IF c.chat_input = "" \/ c.ai_worker = "running"
    THEN [c EXCEPT !.last = "send_message", !.rejected = TRUE]
    ELSE [c EXCEPT !.chat_input = "", !.input_enabled = FALSE,
                   !.messages = @ + 1, !.ai_worker = "running", !.fate = fate,
                   !.waited = 0, !.answered = 0,
                   !.in_flight = @ + 1, !.workers = @ + 1,
                   !.last = "send_message", !.rejected = FALSE]

ChatStep(c) ==
    /\ running
    /\ chat' = c
    /\ UNCHANGED <<enabled_plugins, loaded_plugins, settings_file, running, last,
                   host, host_last, hist_host, extVars>>

\* the user types into the input line, which takes text only when enabled
type_message ==
    /\ chat.input_enabled
    /\ chat.chat_input = ""
    /\ ChatStep([chat EXCEPT !.chat_input = "msg", !.last = "type_message"])

send_message(fate) ==
    /\ chat.workers < MaxRequests
    /\ ChatStep(SendMessage(chat, fate))

\* (variant of worker_returns: run() emits the error result and the response)
worker_returns_EmitsTwice ==
    /\ chat.ai_worker = "running"
    /\ chat.fate # "hangs"
    /\ ChatStep([chat EXCEPT
                   !.ai_worker = "finished", !.in_flight = @ - 1,
                   !.pending = <<"error_occurred", "response_ready", "finished">>,
                   !.last = "worker_returns"])

\* chat() returns or raises in the worker thread: run() emits response_ready
\* or error_occurred, returns, and the thread emits finished
worker_returns ==
    /\ chat.ai_worker = "running"
    /\ chat.fate # "hangs"
    /\ ChatStep([chat EXCEPT
                   !.ai_worker = "finished", !.in_flight = @ - 1,
                   !.pending = <<IF chat.fate = "responds" THEN "response_ready"
                                 ELSE "error_occurred", "finished">>,
                   !.last = "worker_returns"])

\* one second passes while the worker is blocked in chat(); _on_timeout
\* runs when the timer's timeout is delivered
second_passes ==
    LET w == chat.waited + 1
        fires == WorkerEventLoop /\ w = timeout_seconds
    IN  /\ chat.ai_worker = "running"
        /\ chat.waited <= timeout_seconds
        /\ ChatStep([chat EXCEPT
                       !.waited = w,
                       !.pending = IF fires THEN Append(@, "error_occurred") ELSE @,
                       !.last = "second_passes"])

\* the GUI thread delivers the next queued signal: on_ai_response,
\* on_ai_error or on_ai_finished
deliver_signal ==
    LET sig == Head(chat.pending)
    IN  /\ chat.pending # <<>>
        /\ ChatStep(IF sig = "finished"
                    THEN [chat EXCEPT !.pending = Tail(@), !.input_enabled = TRUE,
                                      !.ai_worker = "none", !.last = "on_ai_finished"]
                    ELSE [chat EXCEPT !.pending = Tail(@), !.messages = @ + 1,
                                      !.answered = @ + 1,
                                      !.last = IF sig = "response_ready" THEN "on_ai_response"
                                               ELSE "on_ai_error"])

NextChat ==
    \/ type_message /\ ManagerIdle
    \/ \E fate \in ProviderFates : send_message(fate) /\ ManagerIdle
    \/ worker_returns /\ ManagerIdle
    \/ second_passes /\ ManagerIdle
    \/ deliver_signal /\ ManagerIdle

SpecChat == InitAllEnabled /\ [][NextChat]_vars

(***************************************************************************)
(* The chat turn of the assistant: agent.chat with save_message and        *)
(* load_recent_history.  A response is the list of the commands that       *)
(* follow its SYSINFPULL: marker, or has no marker.                        *)
(***************************************************************************)
MAX_HISTORY_TURNS == 10

\* chat turns in one run
MaxTurns == 2

\* commands chat() knows, and one it does not
KnownCommands == {"todo_list", "add_todo"}

Commands == KnownCommands \cup {"bogus"}

\* responses of ai.ask: without the marker (ask returns "" on every error),
\* or the marker followed by a comma-separated command list
Responses ==
    {[marker |-> FALSE, cmds |-> <<>>, text |-> t] : t \in {"", "answer"}}
    \cup {[marker |-> TRUE, cmds |-> c, text |-> "SYSINFPULL"] :
            c \in {<<"todo_list">>, <<"add_todo", "bogus">>, <<"bogus", "todo_list">>}}

\* the last n elements of a list: s[-n:]
LastN(s, n) == IF Len(s) <= n THEN s ELSE SubSeq(s, Len(s) - n + 1, Len(s))

\* save_message: append to the memory, trim it, append a line to the file
SaveMessage(a, role, content, write_fails) ==
    LET m == LastN(Append(a.memory, [role |-> role, content |-> content]),
                   MAX_HISTORY_TURNS * 2)
    IN  [raised |-> write_fails,
         agent |-> IF write_fails THEN [a EXCEPT !.memory = m]
                   ELSE [a EXCEPT !.memory = m,
                                  !.file = Append(@, [role |-> role, content |-> content])]]

\* load_recent_history: an empty memory is filled from the lines of the file
LoadRecentHistory(a) ==
    IF a.memory = <<>> /\ a.file # <<>>
    THEN [a EXCEPT !.memory = LastN(a.file, MAX_HISTORY_TURNS * 2)]
    ELSE a

\* the for loop over the parsed commands: the commands run, in order, up to
\* the one that raises; unknown commands match no branch
RECURSIVE RunCommands(_, _, _)
RunCommands(cmds, raises_at, done) ==
    IF cmds = <<>> THEN [raised |-> FALSE, executed |-> done]
    ELSE IF Head(cmds) \notin KnownCommands
    THEN RunCommands(Tail(cmds), raises_at, done)
    ELSE IF Head(cmds) = raises_at THEN [raised |-> TRUE, executed |-> done]
    ELSE RunCommands(Tail(cmds), raises_at, Append(done, Head(cmds)))

\* (variant of Chat: the second response is handled like the first)
Chat_Recursive(a, first, second, raises_at, write_fails) ==
    LET h == LoadRecentHistory(a)
        r1 == RunCommands(first.cmds, raises_at, <<>>)
        r2 == RunCommands(second.cmds, raises_at, r1.executed)
        u == SaveMessage(h, "user", "question", FALSE)
        v == SaveMessage(u.agent, "assistant", second.text, FALSE)
    IN  IF first.marker
        THEN [v.agent EXCEPT !.turn = TurnObs("returned", 3, 2, r2.executed, second.text)]
        ELSE [v.agent EXCEPT !.turn = TurnObs("returned", 1, 0, <<>>, first.text)]

\* chat(ai, user_input, plugin_var)
Chat(a, first, second, raises_at, write_fails) ==
    LET h == LoadRecentHistory(a)
        r == IF first.marker THEN RunCommands(first.cmds, raises_at, <<>>)
             ELSE [raised |-> FALSE, executed |-> <<>>]
        asks == IF first.marker /\ ~r.raised THEN 2 ELSE 1
        rounds == IF first.marker THEN 1 ELSE 0
        response == IF first.marker THEN second.text ELSE first.text
        u == SaveMessage(h, "user", "question", write_fails = "user")
        v == SaveMessage(u.agent, "assistant", response, write_fails = "assistant")
    IN  IF r.raised
        THEN [h EXCEPT !.turn = TurnObs("raised", asks, rounds, r.executed, "-")]
        ELSE IF u.raised
        THEN [u.agent EXCEPT !.turn = TurnObs("raised", asks, rounds, r.executed, "-")]
        ELSE IF v.raised
        THEN [v.agent EXCEPT !.turn = TurnObs("raised", asks, rounds, r.executed, "-")]
        ELSE [v.agent EXCEPT !.turn = TurnObs("returned", asks, rounds, r.executed, response)]

AgentStep(a) ==
    /\ running
    /\ agent' = a
    /\ UNCHANGED <<enabled_plugins, loaded_plugins, settings_file, running, last,
                   host, host_last, hist_host, chat, dialog, surface, feedback>>

\* one chat turn of the worker thread
chat_turn(first, second, raises_at, write_fails) ==
    /\ agent.turns < MaxTurns
    /\ AgentStep([Chat(agent, first, second, raises_at, write_fails)
                    EXCEPT !.turns = agent.turns + 1,
                           !.first = first, !.second = second])

\* clear_chat_history: the memory is emptied and the file removed
clear_chat_history ==
    /\ agent.file # <<>>
    /\ AgentStep([agent EXCEPT !.memory = <<>>, !.file = <<>>,
                               !.turn = TurnObs("cleared", 0, 0, <<>>, "-")])

\* the program is started again: the module's memory is empty, the file stays
restart_agent ==
    /\ agent.memory # <<>>
    /\ AgentStep([agent EXCEPT !.memory = <<>>,
                               !.turn = TurnObs("init", 0, 0, <<>>, "-")])

NextAgent ==
    \/ \E first \in Responses, second \in Responses,
          raises_at \in {"none", "add_todo"},
          write_fails \in {"none", "user", "assistant"} :
          chat_turn(first, second, raises_at, write_fails) /\ ManagerIdle
    \/ clear_chat_history /\ ManagerIdle
    \/ restart_agent /\ ManagerIdle

SpecAgent == InitAllEnabled /\ [][NextAgent]_vars

(***************************************************************************)
(* PluginTaskDialog: the wizard step that offers the tasks plugins suggest *)
(***************************************************************************)
\* PluginTaskDialog.__init__
NewPluginTaskDialog(current_goals) ==
    [phase |-> "scanning", current_goals |-> current_goals,
     final_goals |-> current_goals,
     has_task_checkboxes |-> FALSE, task_checkboxes |-> <<>>, how |-> "-"]

\* scan_for_tasks with show_additional_tasks / show_no_additional_tasks:
\* additional_tasks is what call_goals_analyzed_hooks returned
ScanForTasks(d, additional_tasks) ==
    IF Len(additional_tasks) > Len(d.current_goals)
    THEN LET new_tasks == SubSeq(additional_tasks, Len(d.current_goals) + 1,
                                 Len(additional_tasks))
         IN  [d EXCEPT !.phase = "shown", !.has_task_checkboxes = TRUE,
                       !.task_checkboxes =
                           [i \in DOMAIN new_tasks |-> [task |-> new_tasks[i], checked |-> TRUE]]]
    ELSE [d EXCEPT !.phase = "shown"]

\* the tasks of the checked boxes, in the order of the boxes
RECURSIVE SelectedTasks(_)
SelectedTasks(boxes) ==
    IF boxes = <<>> THEN <<>>
    ELSE (IF Head(boxes).checked THEN <<Head(boxes).task>> ELSE <<>>)
         \o SelectedTasks(Tail(boxes))

\* PluginTaskDialog.accept, the override of QDialog.accept
Accept(d) ==
    [d EXCEPT !.phase = "accepted",
              !.final_goals = IF d.has_task_checkboxes
                              THEN SelectedTasks(d.task_checkboxes) \o d.current_goals
                              ELSE d.current_goals]

\* skip_scan: sets final_goals and calls self.accept()
SkipScan(d) == Accept([d EXCEPT !.final_goals = d.current_goals])

DialogStep(d) ==
    /\ running
    /\ dialog' = d
    /\ UNCHANGED <<enabled_plugins, loaded_plugins, settings_file, running,
                   host, host_last, hist_host, chat, agent, surface, feedback>>

\* FocusLauncher.run constructs the dialog with the analyzed goals
open_dialog(goals) ==
    /\ dialog.phase \in {"closed", "accepted", "rejected"}
    /\ DialogStep(NewPluginTaskDialog(goals))
    /\ UNCHANGED last

\* the single-shot timer of init_ui runs scan_for_tasks
scan_for_tasks(beh) ==
    LET g == GoalsLoop(enabled_plugins, loaded_plugins, dialog.current_goals, beh)
    IN  /\ dialog.phase = "scanning"
        /\ DialogStep(ScanForTasks(dialog, g.result))
        /\ last' = [op |-> "call_goals_analyzed_hooks", arg |-> "-", ret |-> "returned",
                    calls |-> CallsOfTrace(g.trace), cleanups |-> NoCleanups,
                    load_failed |-> FALSE, goals_in |-> dialog.current_goals,
                    goals_out |-> g.result, trace |-> g.trace]

\* the user clicks the checkbox of a suggested task
toggle_task(i) ==
    /\ dialog.phase = "shown"
    /\ i \in DOMAIN dialog.task_checkboxes
    /\ DialogStep([dialog EXCEPT !.task_checkboxes[i].checked = ~@])
    /\ UNCHANGED last

\* the Continue / Add Selected & Continue button, shown after the scan
accept ==
    /\ dialog.phase = "shown"
    /\ DialogStep([Accept(dialog) EXCEPT !.how = "continue"])
    /\ UNCHANGED last

\* the Skip / Skip All button
skip_scan ==
    /\ dialog.phase \in {"scanning", "shown"}
    /\ DialogStep([SkipScan(dialog) EXCEPT !.how = "skip"])
    /\ UNCHANGED last

\* the dialog is dismissed with Escape: exec_() returns Rejected
reject_dialog ==
    /\ dialog.phase \in {"scanning", "shown"}
    /\ DialogStep([dialog EXCEPT !.phase = "rejected", !.how = "reject"])
    /\ UNCHANGED last

NextDialog ==
    \/ \E goals \in WizardGoals : open_dialog(goals) /\ ManagerIdle
    \/ \E beh \in [AvailablePlugins -> GoalBehaviours] : scan_for_tasks(beh) /\ ManagerIdle
    \/ \E i \in 1..NumPlugins : toggle_task(i) /\ ManagerIdle
    \/ accept /\ ManagerIdle
    \/ skip_scan /\ ManagerIdle
    \/ reject_dialog /\ ManagerIdle

SpecDialog == InitAllEnabled /\ [][NextDialog]_vars

(***************************************************************************)
(* The settings dialog's app settings, kept in the same plugin_settings    *)
(* file.  The members of the app_settings object are tokens key=value.     *)
(***************************************************************************)
PopupTokens == {"popup_interval_minutes=1", "popup_interval_minutes=2"}

BreathTokens == {"breath_duration_seconds=15", "breath_duration_seconds=30"}

\* the key of a member of the app_settings object
KeyOf(token) ==
    IF token \in PopupTokens THEN "popup_interval_minutes"
    ELSE IF token \in BreathTokens THEN "breath_duration_seconds"
    ELSE token

\* settings['app_settings'][key] = value on the members of the object
SetItem(v, token) ==
    IF \E i \in DOMAIN v : KeyOf(v[i]) = KeyOf(token)
    THEN [i \in DOMAIN v |-> IF KeyOf(v[i]) = KeyOf(token) THEN token ELSE v[i]]
    ELSE Append(v, token)

\* settings[key] = value on the top-level dict
SetMember(d, m) ==
    IF \E i \in DOMAIN d : d[i].k = m.k
    THEN [i \in DOMAIN d |-> IF d[i].k = m.k THEN m ELSE d[i]]
    ELSE Append(d, m)

\* save_popup_interval_setting / save_breath_duration_setting: load the file
\* if it exists, set the member of app_settings, dump; an exception (a file
\* json.load rejects) leaves the file as it is
SaveAppSetting(file, token) ==
    LET r == IF file.exists THEN JsonLoad(file.text) ELSE [ok |-> TRUE, val |-> <<>>, next |-> 0]
        app == DictGet(r.val, "app_settings", <<>>)
        settings == SetMember(r.val, [k |-> "app_settings", kind |-> "object",
                                      v |-> SetItem(app, token)])
    IN  IF r.ok THEN [exists |-> TRUE, text |-> JsonDump(settings)] ELSE file

\* get_popup_interval_setting and get_breath_duration_setting read this
\* object: settings.get('app_settings', {})
AppSettings(file) ==
    IF ~file.exists THEN <<>>
    ELSE LET r == JsonLoad(file.text)
         IN  IF r.ok THEN DictGet(r.val, "app_settings", <<>>) ELSE <<>>

save_popup_interval_setting(token) ==
    /\ running
    /\ settings_file' = SaveAppSetting(settings_file, token)
    /\ last' = Obs("save_popup_interval_setting", token, "none", <<>>, NoCleanups)
    /\ UNCHANGED <<enabled_plugins, loaded_plugins, running>>
    /\ UNCHANGED hostVars

save_breath_duration_setting(token) ==
    /\ running
    /\ settings_file' = SaveAppSetting(settings_file, token)
    /\ last' = Obs("save_breath_duration_setting", token, "none", <<>>, NoCleanups)
    /\ UNCHANGED <<enabled_plugins, loaded_plugins, running>>
    /\ UNCHANGED hostVars

NextSettings ==
    \/ \E p \in PluginIds, outcome \in LoadOutcomes :
          enable_plugin(p, outcome) /\ NoHistory
    \/ \E p \in PluginIds, cleanup_raises \in BOOLEAN :
          disable_plugin(p, cleanup_raises) /\ NoHistory
    \/ \E token \in PopupTokens : save_popup_interval_setting(token) /\ NoHistory
    \/ \E token \in BreathTokens : save_breath_duration_setting(token) /\ NoHistory

SpecSettings == InitAllEnabled /\ [][NextSettings]_vars

(***************************************************************************)
(* SpecLifecycle: toggles and dispatches, with the lifecycle history       *)
(***************************************************************************)
NextLifecycle ==
    \/ \E p \in PluginIds, outcome \in LoadOutcomes :
          enable_plugin(p, outcome) /\ LifecycleHistory
    \/ \E p \in PluginIds, cleanup_raises \in BOOLEAN :
          disable_plugin(p, cleanup_raises) /\ LifecycleHistory
    \/ \E raises \in CoarseRaises :
          call_session_start_hooks(raises) /\ LifecycleHistory
    \/ \E raises \in CoarseRaises :
          call_session_update_hooks(raises) /\ LifecycleHistory

SpecLifecycle == Init /\ [][NextLifecycle]_vars

(***************************************************************************)
(* The control surface: the monitor controlsniffer.py, the focus processes *)
(* it starts, and the current_mode and stop_signal files they share.  The  *)
(* monitor and every focus process are separate operating-system           *)
(* processes: each step below is one of their file or process operations.  *)
(***************************************************************************)
Modes == {"productivity", "creativity", "social"}

\* elapsed > 3 of check_and_start_queued_mode
WaitSeconds == 3

\* pgrep -f 'focusmode|focus_launcher' prints a process id
FocusProcessRunning(s) ==
    \E p \in ProcIds : s.procs[p] \in {"wizard", "session", "summary"}

\* the focus processes whose ProgressPopup is ticking
ActiveSessions(s) == {p \in ProcIds : s.procs[p] = "session"}

FreeProcs(s) == {p \in ProcIds : s.procs[p] = "none"}

\* is_session_actually_running: its result, and the current_mode file after
\* the removal of a leftover
IsSessionActuallyRunning(s) ==
    LET focus_process_running == FocusProcessRunning(s)
    IN  IF s.current_mode /\ ~focus_process_running
        THEN [ret |-> FALSE, current_mode |-> FALSE]
        ELSE [ret |-> s.current_mode /\ focus_process_running,
              current_mode |-> s.current_mode]

\* end_session_event: the stop_signal file is written
EndSessionEvent(s) ==
    [s EXCEPT !.stop_signal = TRUE, !.signal_for = ActiveSessions(s)]

\* set_queued_mode
SetQueuedMode(s, mode) ==
    [s EXCEPT !.queued_mode = mode, !.waiting_for_session_end = TRUE,
              !.elapsed = 0, !.queued_during = ActiveSessions(s)]

\* start_mode: Popen of focusmode.py with the mode
StartMode(s, mode, source) ==
    LET p == CHOOSE q \in FreeProcs(s) : \A r \in FreeProcs(s) : q <= r
    IN  [s EXCEPT !.procs[p] = "wizard",
                  !.last = [SurfaceObs("start_mode", p)
                              EXCEPT !.mode = mode, !.source = source,
                                     !.focus_running = FocusProcessRunning(s),
                                     !.queued_during = s.queued_during]]

\* check_and_start_queued_mode, called with waiting_for_session_end set
CheckAndStartQueuedMode(s) ==
    IF FocusProcessRunning(s) \/ ~(s.elapsed > WaitSeconds)
    THEN [s EXCEPT !.last = SurfaceObs("check_and_start_queued_mode", 0)]
    ELSE LET t == IF s.queued_mode # "None"
                  THEN StartMode(s, s.queued_mode, "queued")
                  ELSE [s EXCEPT !.last = SurfaceObs("check_and_start_queued_mode", 0)]
         IN  [t EXCEPT !.queued_mode = "None", !.waiting_for_session_end = FALSE,
                       !.elapsed = 0, !.queued_during = {}]

\* update_progress of the ProgressPopup of process p: the stop_signal file
\* ends the session, otherwise the session goes on or completes; both ends
\* remove the current_mode and stop_signal files
SurfaceTick(s, p, completes) ==
    IF s.stop_signal
    THEN [s EXCEPT !.stop_signal = FALSE, !.signal_for = {}, !.current_mode = FALSE,
                   !.procs[p] = "summary",
                   !.last = [SurfaceObs("update_progress", p)
                               EXCEPT !.stop_signal_seen = TRUE,
                                      !.signal_for = s.signal_for]]
    ELSE IF completes
    THEN [s EXCEPT !.signal_for = {}, !.current_mode = FALSE,
                   !.procs[p] = "summary",
                   !.last = [SurfaceObs("update_progress", p) EXCEPT !.ret = TRUE]]
    ELSE [s EXCEPT !.last = SurfaceObs("update_progress", p)]

SurfaceStep(s) ==
    /\ running
    /\ surface' = s
    /\ UNCHANGED <<enabled_plugins, loaded_plugins, settings_file, running, last,
                   host, host_last, hist_host, chat, agent, dialog, feedback>>

\* the main loop calls check_and_start_queued_mode
check_and_start_queued_mode ==
    /\ surface.pc = "loop"
    /\ surface.waiting_for_session_end
    /\ FreeProcs(surface) # {}
    /\ SurfaceStep(CheckAndStartQueuedMode(surface))

\* a second passes in time.sleep
monitor_sleep ==
    /\ surface.waiting_for_session_end
    /\ surface.elapsed <= WaitSeconds
    /\ SurfaceStep([surface EXCEPT !.elapsed = @ + 1, !.last = SurfaceObs("sleep", 0)])

\* button_1_action / button_2_action / button_3_action up to the test of
\* is_session_actually_running()
button_action(mode) ==
    LET r == IsSessionActuallyRunning(surface)
    IN  /\ surface.pc = "loop"
        /\ SurfaceStep([surface EXCEPT
                           !.current_mode = r.current_mode,
                           !.pc = IF r.ret THEN "end_session_event" ELSE "start_mode",
                           !.pending = mode,
                           !.last = [SurfaceObs("is_session_actually_running", 0)
                                       EXCEPT !.ret = r.ret, !.mode = mode]])

\* the branch of a running session: end_session_event() and set_queued_mode
end_session_event ==
    /\ surface.pc = "end_session_event"
    /\ SurfaceStep([SetQueuedMode(EndSessionEvent(surface), surface.pending)
                      EXCEPT !.pc = "loop", !.pending = "-",
                             !.last = [SurfaceObs("end_session_event", 0)
                                         EXCEPT !.signal_for = ActiveSessions(surface)]])

\* the other branch: start_mode
start_mode ==
    /\ surface.pc = "start_mode"
    /\ FreeProcs(surface) # {}
    /\ SurfaceStep([StartMode(surface, surface.pending, "button")
                      EXCEPT !.pc = "loop", !.pending = "-"])

\* focus process p leaves its dialogs and constructs its ProgressPopup;
\* run_with_password writes the current_mode file
proc_run(p, use_website_blocking) ==
    /\ surface.procs[p] = "wizard"
    /\ SurfaceStep([surface EXCEPT !.procs[p] = "session",
                                   !.current_mode = @ \/ use_website_blocking,
                                   !.last = SurfaceObs("run", p)])

\* a dialog of focus process p is cancelled: run_cli_session returns
proc_cancel(p) ==
    /\ surface.procs[p] = "wizard"
    /\ SurfaceStep([surface EXCEPT !.procs[p] = "exited",
                                   !.last = SurfaceObs("cancel", p)])

\* the progress timer of focus process p fires
proc_update_progress(p, completes) ==
    /\ surface.procs[p] = "session"
    /\ SurfaceStep(SurfaceTick(surface, p, completes))

\* the summary of focus process p is closed and the process exits
proc_exit(p) ==
    /\ surface.procs[p] = "summary"
    /\ SurfaceStep([surface EXCEPT !.procs[p] = "exited",
                                   !.last = SurfaceObs("exit", p)])

NextSurface ==
    \/ check_and_start_queued_mode /\ ManagerIdle
    \/ monitor_sleep /\ ManagerIdle
    \/ \E mode \in Modes : button_action(mode) /\ ManagerIdle
    \/ end_session_event /\ ManagerIdle
    \/ start_mode /\ ManagerIdle
    \/ \E p \in ProcIds, use_website_blocking \in BOOLEAN :
          proc_run(p, use_website_blocking) /\ ManagerIdle
    \/ \E p \in ProcIds : proc_cancel(p) /\ ManagerIdle
    \/ \E p \in ProcIds, completes \in BOOLEAN :
          proc_update_progress(p, completes) /\ ManagerIdle
    \/ \E p \in ProcIds : proc_exit(p) /\ ManagerIdle

SpecSurface == InitAllEnabled /\ [][NextSurface]_vars

(***************************************************************************)
(* The positive_feedback plugin and the checklist of the ProgressPopup it   *)
(* refers to.  Percentages are fractions [num, den]: the float              *)
(* completed / total * 100 has the integer part of num / den.              *)
(***************************************************************************)
\* len(affirmations)
NumAffirmations == 10

\* a > b for fractions with positive denominators
FracGreater(a, b) == a.num * b.den > b.num * a.den

\* Plugin.on_checklist_item_changed: the dialog is built, with
\* affirmations[int(progress_percent / 10)], when the percentage is above
\* previous_completion; `is not 0` holds for every float
OnChecklistItemChanged(f) ==
    LET progress_percent == GetChecklistProgressPercentage(f.ref, f.popup)
        index == progress_percent.num \div (progress_percent.den * 10)
    IN  IF ~FracGreater(progress_percent, f.previous_completion)
        THEN [f EXCEPT !.last = [op |-> "on_checklist_item_changed", shown |-> FALSE,
                                 index |-> 0, raised |-> FALSE]]
        ELSE IF index \in 0..(NumAffirmations - 1)
        THEN [f EXCEPT !.previous_completion = progress_percent,
                       !.last = [op |-> "on_checklist_item_changed", shown |-> TRUE,
                                 index |-> index, raised |-> FALSE]]
        ELSE [f EXCEPT !.last = [op |-> "on_checklist_item_changed", shown |-> FALSE,
                                 index |-> index, raised |-> TRUE]]

FeedbackStep(f) ==
    /\ running
    /\ feedback' = f
    /\ UNCHANGED <<enabled_plugins, loaded_plugins, settings_file, running, last,
                   host, host_last, hist_host, chat, agent, dialog, surface>>

\* the ProgressPopup is constructed with the goals of the wizard and
\* set_progress_popup_reference hands it to the plugin
feedback_session(goals) ==
    /\ feedback.popup.phase = "wizard"
    /\ FeedbackStep([feedback EXCEPT
                        !.popup = NewProgressPopup(NoSession, 1, goals, FALSE),
                        !.ref = TRUE,
                        !.last = [op |-> "session", shown |-> FALSE, index |-> 0,
                                  raised |-> FALSE]])

\* the user clicks checkbox i: goal_checked dispatches the hook
feedback_goal_checked(i) ==
    /\ feedback.popup.phase = "session"
    /\ i \in DOMAIN feedback.popup.goal_checkboxes
    /\ FeedbackStep(OnChecklistItemChanged(
           [feedback EXCEPT !.popup = SetBox(@, i, ~@.goal_checkboxes[i].checked)]))

\* add_todo_item of the AI agent appends a goal and its checkbox
feedback_add_todo_item(task) ==
    /\ feedback.popup.phase = "session"
    /\ Len(feedback.popup.goals) < MaxGoals
    /\ FeedbackStep([feedback EXCEPT
                        !.popup.goals = Append(@, FormatTask(task)),
                        !.popup.goal_checkboxes =
                            IF feedback.popup.has_checkboxes
                            THEN Append(@, [text |-> FormatTask(task), checked |-> FALSE])
                            ELSE @,
                        !.last = [op |-> "add_todo_item", shown |-> FALSE, index |-> 0,
                                  raised |-> FALSE]])

NextFeedback ==
    \/ \E goals \in WizardGoals : feedback_session(goals) /\ ManagerIdle
    \/ \E i \in 1..MaxGoals : feedback_goal_checked(i) /\ ManagerIdle
    \/ \E task \in Tasks : feedback_add_todo_item(task) /\ ManagerIdle

SpecFeedback == InitAllEnabled /\ [][NextFeedback]_vars

(***************************************************************************)
(* Properties of the session host and of the chat window                   *)
(***************************************************************************)
\* the dispatches of one hook made by the last handler of the session host
EntriesOf(hook) ==
    {i \in DOMAIN host_last.dispatches : host_last.dispatches[i].hook = hook}

AllTimers == {"progress", "popup", "app"}

\* the last handler was a progress tick that went on to the update dispatch
PlainTick == host_last.handler = "update_progress" /\ ~host_last.stop_signal_seen

\* the update dispatch of the last tick carries the values recomputed from
\* the clock reading of that tick
RecomputedUpdate ==
    /\ Cardinality(EntriesOf("session_update")) = 1
    /\ LET e == host_last.dispatches[1]
           elapsed == host.now - host.start_time
       IN  /\ e.hook = "session_update"
           /\ e.elapsed = elapsed
           /\ e.progress = IF elapsed >= host.session_duration
                           THEN 100 * host.session_duration ELSE 100 * elapsed
           /\ host_last.remaining = IF elapsed >= host.session_duration THEN 0
                                    ELSE host.session_duration - elapsed

\* C11 as stated: every progress tick recomputes elapsed and remaining time
\* and dispatches call_session_update_hooks exactly once with the recomputed
\* elapsed minutes and progress percent.
C11_EveryTickDispatchesUpdate ==
    host_last.handler = "update_progress" => RecomputedUpdate

\* C11, amended: every progress tick that does not find and remove the
\* stop-signal file recomputes elapsed and remaining time and dispatches
\* call_session_update_hooks exactly once with the recomputed values; a tick
\* that finds and removes the stop-signal file stops the session instead and
\* dispatches no session update.
C11_TickWithoutStopSignalDispatchesUpdate ==
    /\ PlainTick => RecomputedUpdate
    /\ (host_last.handler = "update_progress" /\ host_last.stop_signal_seen)
          => /\ EntriesOf("session_update") = {}
             /\ Len(host_last.dispatches) = 1
             /\ host_last.dispatches[1].hook = "session_end"
             /\ host.phase = "summary"

\* a tick half way through a session of two units dispatched 50 percent
C11_Witness ==
    /\ PlainTick
    /\ host.session_duration = 2
    /\ host.now - host.start_time = 1
    /\ host_last.dispatches[1].progress = 100
    /\ host_last.remaining = 1
    /\ host.phase = "session"

\* C12: the dict passed to call_session_end_hooks has early_termination = True
\* exactly when the dispatch is made by stop_focus_mode (button, tray End
\* Session, end_session API, stop-signal file); the dict of session_complete,
\* reached when elapsed >= session_duration, has no early_termination entry.
C12_EarlyTerminationTag ==
    \A i \in EntriesOf("session_end") :
        LET e == host_last.dispatches[i]
            explicit == \/ host_last.handler = "stop_focus_mode"
                        \/ (host_last.handler = "update_progress" /\ host_last.stop_signal_seen)
        IN  /\ e.early_termination = "True" <=> explicit
            /\ ~explicit => /\ e.early_termination = "absent"
                            /\ PlainTick
                            /\ host.now - host.start_time >= host.session_duration

\* a tick reached the planned duration: update dispatch, then the end
\* dispatch without the tag
C12_Witness ==
    /\ PlainTick
    /\ Len(host_last.dispatches) = 2
    /\ host_last.dispatches[2].hook = "session_end"
    /\ host_last.dispatches[2].early_termination = "absent"
    /\ host.phase = "summary"

\* C13: on both end paths the three timers are stopped before
\* call_session_end_hooks is dispatched, and after the session-end dispatch no
\* further session_update dispatch, popup display or usage sample occurs.
C13_NothingAfterSessionEnd ==
    /\ \A i \in EntriesOf("session_end") : host_last.dispatches[i].timers = {}
    /\ hist_host.after_end \cap {"session_update", "popup", "usage_sample"} = {}

\* C14: constructing the session host starts the three timers and dispatches
\* call_session_start_hooks exactly once, before every session_update,
\* checklist_item_changed and session_end dispatch of the session.
C14_StartDispatchedOnceAndFirst ==
    /\ hist_host.before_start = {}
    /\ hist_host.starts <= 1
    /\ Alive => hist_host.starts = 1
    /\ (host_last.handler = "run" /\ ~host_last.exited)
          => /\ Len(host_last.dispatches) = 1
             /\ host_last.dispatches[1].hook = "session_start"
             /\ host_last.dispatches[1].timers = AllTimers
             /\ ActiveTimers(host) = AllTimers

\* a session that has seen a checklist toggle and ends on an update tick
C14_Witness ==
    /\ hist_host.starts = 1
    /\ host.completed_goals # {}
    /\ host_last.handler = "update_progress"
    /\ EntriesOf("session_update") # {}
    /\ EntriesOf("session_end") # {}

\* C15: at most one AI request is in flight; a send_message made while a
\* worker thread is running creates no worker, adds no chat message and
\* leaves the input as it is.
C15_OneRequestInFlight ==
    /\ [](chat.in_flight <= 1)
    /\ [][(chat'.last = "send_message" /\ chat.ai_worker = "running")
             => /\ chat'.rejected
                /\ chat'.workers = chat.workers
                /\ chat'.messages = chat.messages
                /\ chat'.chat_input = chat.chat_input
                /\ chat'.in_flight = chat.in_flight]_vars

\* a send was rejected while the worker of the request before is running
C15_Witness ==
    /\ chat.last = "send_message"
    /\ chat.rejected
    /\ chat.ai_worker = "running"
    /\ chat.in_flight = 1
    /\ chat.workers = 1

\* C16: when the provider call of an accepted request never returns, the
\* worker has emitted an error result once timeout_seconds have passed.
C16_HungRequestAnswered ==
    (chat.ai_worker = "running" /\ chat.fate = "hangs" /\ chat.waited >= timeout_seconds)
        => chat.answered + Len(chat.pending) > 0

C18_ProgressInRangeAndMonotone ==
    \A i \in EntriesOf("session_update") :
        LET e == host_last.dispatches[i]
        IN  /\ host.session_duration > 0
            /\ 0 <= e.progress /\ e.progress <= 100 * host.session_duration
            /\ LedCommand(e.progress, host.session_duration) \in 0..100
            /\ hist_host.ticks >= 2 => hist_host.latest_progress >= hist_host.prev_progress

\* the texts of the checklist items that are checked
CheckedTexts ==
    {host.goal_checkboxes[i].text :
        i \in {j \in DOMAIN host.goal_checkboxes : host.goal_checkboxes[j].checked}}

\* C19: completed_goals is the set of texts of the checked checklist items, a
\* subset of goals, and get_checklist_progress_percentage is in 0..100 and is
\* 100 exactly when every checklist item is checked.
C19_CompletedGoalsMatchChecklist ==
    Alive =>
        LET pct == ChecklistPercentage(host)
        IN  /\ host.completed_goals = CheckedTexts
            /\ host.completed_goals \subseteq {host.goals[i] : i \in DOMAIN host.goals}
            /\ 0 <= pct.num /\ pct.num <= 100 * pct.den
            /\ host.goal_checkboxes # <<>>
                  => (pct.num = 100 * pct.den
                        <=> \A i \in DOMAIN host.goal_checkboxes : host.goal_checkboxes[i].checked)

\* C20: a session starts only when the wizard was accepted and
\* launch_focus_mode activated the restrictions; with website blocking
\* requested and the password dialog rejected or run_with_password failing,
\* the program exits and no session is started.
C20_SessionOnlyAfterLaunch ==
    /\ Alive => host.launched
    /\ (host_last.handler = "run"
          /\ host_last.outcome \in {"password_rejected", "run_with_password_failed"})
          => host_last.exited /\ host_last.dispatches = <<>>

\* the result signals (response_ready, error_occurred) emitted for the request
\* sent last: those delivered to the window and those still queued
ResultSignals ==
    chat.answered
      + Cardinality({i \in DOMAIN chat.pending : chat.pending[i] # "finished"})

\* C21: for each AI request the worker emits at most one result signal, and
\* exactly one (response_ready or error_occurred) once the provider call has
\* returned or raised, also when the timeout period has passed before the
\* provider call completes.
C21_OneResultPerRequest ==
    /\ ResultSignals <= 1
    /\ (chat.workers > 0 /\ chat.ai_worker # "running") => ResultSignals = 1
    /\ chat.ai_worker = "finished"
          => chat.pending \in {<<"response_ready", "finished">>,
                               <<"error_occurred", "finished">>, <<"finished">>}

\* the provider answered after the timeout period had passed: one response
C21_Witness ==
    /\ chat.ai_worker = "finished"
    /\ chat.fate = "responds"
    /\ chat.waited >= timeout_seconds
    /\ chat.pending = <<"response_ready", "finished">>
    /\ chat.answered = 0

\* the step is one chat turn
IsChatTurn == agent'.turns = agent.turns + 1

\* the two messages a turn saves
SavedPair(response) ==
    <<[role |-> "user", content |-> "question"],
      [role |-> "assistant", content |-> response]>>

C23_FinalGoals ==
    dialog.phase = "accepted" =>
        /\ dialog.how = "continue"
              => dialog.final_goals
                   = SelectedTasks(dialog.task_checkboxes) \o dialog.current_goals
        /\ (dialog.how = "skip" \/ dialog.task_checkboxes = <<>>)
              => dialog.final_goals = dialog.current_goals

\* C24: when on_session_start is dispatched, the session reference of every
\* plugin that receives it is already set, so that the checklist accessors
\* called from inside the hook return the data of the session and not the
\* no-session defaults.
C24_ReferenceSetBeforeStart ==
    \A i \in EntriesOf("session_start") :
        LET e == host_last.dispatches[i]
        IN  \A k \in DOMAIN e.calls :
                /\ e.refs[e.calls[k].p]
                /\ GetAllChecklistItems(e.refs[e.calls[k].p], host) = host.goals

\* C25: call_session_end_hooks is dispatched exactly once per session: no
\* handler dispatches it twice, and none dispatches it after an earlier
\* handler of the same session has dispatched it (natural completion, tray End
\* Session, end_session, stop-signal file, in any order).
C25_SessionEndDispatchedOnce ==
    /\ Cardinality(EntriesOf("session_end")) <= 1
    /\ "session_end" \notin hist_host.after_end
    /\ host.phase = "summary" => hist_host.ended

\* C26: enable_plugin and disable_plugin leave the app_settings entry of the
\* settings file unchanged, and saving an app setting leaves the stored
\* enabled_plugins unchanged.
C26_SettingsFrame ==
    [][/\ last'.op \in {"enable_plugin", "disable_plugin"}
          => AppSettings(settings_file') = AppSettings(settings_file)
       /\ last'.op \in {"save_popup_interval_setting", "save_breath_duration_setting"}
          => LoadSettings(settings_file', <<>>) = LoadSettings(settings_file, <<>>)
      ]_vars

\* C27: a hook is dispatched to a plugin instance only while the instance is
\* initialized: the last lifecycle call on every instance that received a hook
\* in the last dispatch pass is initialize(), not cleanup().
C27_DispatchOnlyToInitialized ==
    last.op \in {"call_session_start_hooks", "call_session_update_hooks"}
        => \A i \in DOMAIN last.calls : hist_lifecycle[last.calls[i].p] = "initialize"

\* C28: a session terminated because update_progress found the stop_signal
\* file is a session that was active when the monitor wrote that file
C28_StopSignalEndsItsOwnSession ==
    (surface.last.op = "update_progress" /\ surface.last.stop_signal_seen)
        => surface.last.p \in surface.last.signal_for

\* C29: start_mode is invoked only when no focus process exists, and a
\* queued mode only after the sessions running when it was queued have ended
C29_StartOnlyWithoutFocusProcess ==
    surface.last.op = "start_mode"
        => /\ ~surface.last.focus_running
           /\ surface.last.source = "queued"
                 => \A q \in surface.last.queued_during : surface.procs[q] # "session"

\* C30: on_checklist_item_changed completes without raising: the index it
\* computes is an index of the affirmations list
C30_AffirmationIndexValid ==
    feedback.last.op = "on_checklist_item_changed" => ~feedback.last.raised

====
